---- MODULE Spec2Model ----
(***************************************************************************)
(* Lifecycle orchestration of game-server workloads: the start, stop,      *)
(* pause and resume handlers of routes/server_routes.py, the cluster       *)
(* operations of services/kubernetes_service.py and the object store of    *)
(* services/b2_storage_service.py, for one server id in one namespace.     *)
(*                                                                         *)
(* Text is a sequence of characters ("CR" and "LF" are the two line-ending *)
(* characters).  A path is a sequence of segments, the separator "/"       *)
(* standing between two segments: "ops.json" is <<"ops.json">>, "world/"    *)
(* is <<"world", "">>, "game-1/ops.json" is <<"game-1", "ops.json">>.       *)
(***************************************************************************)
EXTENDS Integers, Sequences, FiniteSets, TLC

VARIABLES
    call,     \* per request handler: operation, position, locals, response
    store,    \* object store bucket: key -> stored bytes
    dep,      \* the deployment named server_id: exists, spec.replicas
    pod,      \* the pod labelled app=server_id: phase, files under /data, world
    svc,      \* the service server_id-svc: exists, load-balancer ingress ip
    pip,      \* the static public ip server_id-pip exists
    faults,   \* infrastructure failures the run may still suffer
    edits,    \* changes made to container files by the running game so far
    hist,     \* history: the files of the running server when pause or stop was called
    started,  \* history: the connection_info of the start the instance runs from
    probe     \* the last direct call of a service method or helper: arguments, result

vars == <<call, store, dep, pod, svc, pip, faults, edits, hist, started, probe>>

(***************************************************************************)
(* Bounds of the model.                                                    *)
(***************************************************************************)
MaxFaults == 1
MaxEdits == 1

\* resumes counted after one start (further ones are not counted)
MaxCycles == 2

\* direct calls of update_file in one run
MaxPuts == 2

Procs == {1}

(***************************************************************************)
(* Program constants.                                                      *)
(***************************************************************************)
ServerId == "game-1"

GamePort == 25565

\* for attempt in range(12) of create_game_service
IpPollAttempts == 12

\* for attempt in range(12) of resume_server
PodPollAttempts == 12

WorldBackupFile == <<"world.tar.gz.b64">>

\* a files_to_save that also names the world backup
FilesToSaveWorld ==
    << <<"server.properties">>, <<"ops.json">>, <<"whitelist.json">>,
       <<"banned-players.json">>, <<"banned-ips.json">>, <<"world.tar.gz.b64">> >>

\* files_to_save of stop_server and pause_server, in list order
FilesToSave ==
    << <<"server.properties">>, <<"ops.json">>, <<"whitelist.json">>,
       <<"banned-players.json">>, <<"banned-ips.json">> >>

\* a default_files that lacks its last entry
DefaultFileOrderShort ==
    << <<"server.properties">>, <<"ops.json">>, <<"whitelist.json">>,
       <<"banned-players.json">> >>

\* default_files of start_server, in dict order
DefaultFileOrder ==
    << <<"server.properties">>, <<"ops.json">>, <<"whitelist.json">>,
       <<"banned-players.json">>, <<"banned-ips.json">> >>

DefaultFileContent(path) ==
    IF path = <<"server.properties">>
    THEN <<"n", "LF", "d", "LF", "g">>
    ELSE <<"[", "]">>

\* get_file(self, server_id, file_path): the keyword parameters it accepts
GetFileParams == {"server_id", "file_path"}

(***************************************************************************)
(* Sequences.                                                              *)
(***************************************************************************)
Range(s) == {s[i] : i \in 1..Len(s)}

Last(s) == s[Len(s)]

(***************************************************************************)
(* Conversions.                                                            *)
(***************************************************************************)
\* Python text mode (subprocess.run(text=True), open(path, 'r')): universal
\* newlines, "\r\n" and "\r" are read as "\n".
RECURSIVE TranslateNewlines(_)
TranslateNewlines(s) ==
    IF s = <<>> THEN <<>>
    ELSE IF Head(s) = "CR"
         THEN <<"LF">> \o TranslateNewlines(
                  IF Len(s) >= 2 /\ s[2] = "LF" THEN SubSeq(s, 3, Len(s)) ELSE Tail(s))
         ELSE <<Head(s)>> \o TranslateNewlines(Tail(s))

\* str.encode('utf-8') and the decoding of a text-mode read
Utf8Encode(text) == <<"utf8">> \o text

Utf8Decode(bytes) == Tail(bytes)

\* tar -czf of /data/world, and its extraction
TarWorld(world) == <<"tgz", world>>

UntarWorld(archive) == archive[2]

\* base64 / base64 -d
B64Encode(bytes) == <<"b64">> \o bytes

B64Decode(text) == Tail(text)

(***************************************************************************)
(* Object store (B2StorageService).                                        *)
(***************************************************************************)
\* bucket.ls enumerates file names in ascending order
ListOrder ==
    << <<"banned-ips.json">>, <<"banned-players.json">>, <<"game-1", "ops.json">>,
       <<"ops.json">>, <<"plugins", "">>, <<"server.properties">>, <<"whitelist.json">>,
       <<"world.tar.gz.b64">> >>

StartsWithServer(server_id, path) == Len(path) >= 2 /\ path[1] = server_id

list_files(st, server_id) ==
    SelectSeq(ListOrder, LAMBDA rel : (<<server_id>> \o rel) \in DOMAIN st /\ rel # <<"">>)

FullPath(server_id, file_path) ==
    IF StartsWithServer(server_id, file_path)
    THEN file_path
    ELSE <<server_id>> \o file_path

GetFileFound(st, server_id, file_path) == FullPath(server_id, file_path) \in DOMAIN st

get_file(st, server_id, file_path) ==
    TranslateNewlines(Utf8Decode(st[FullPath(server_id, file_path)]))

\* open(temp_file_path, 'r') decodes what it reads: bytes that are not the
\* encoding of a text raise UnicodeDecodeError
Decodable(bytes) == bytes # <<>> /\ Head(bytes) = "utf8"

GetFileRaises(st, server_id, file_path) ==
    \/ ~GetFileFound(st, server_id, file_path)
    \/ ~Decodable(st[FullPath(server_id, file_path)])

\* an update_file that appends to the object of that name
update_file_appending(st, server_id, file_path, content, is_binary) ==
    LET full_path == <<server_id>> \o file_path
        data == IF is_binary THEN content ELSE Utf8Encode(content)
    IN  [k \in DOMAIN st \cup {full_path} |->
            IF k # full_path THEN st[k]
            ELSE IF full_path \in DOMAIN st THEN st[k] \o data ELSE data]

update_file(st, server_id, file_path, content, is_binary) ==
    LET full_path == <<server_id>> \o file_path
        data == IF is_binary THEN content ELSE Utf8Encode(content)
    IN  [k \in DOMAIN st \cup {full_path} |-> IF k = full_path THEN data ELSE st[k]]

(***************************************************************************)
(* Cluster.                                                                *)
(***************************************************************************)
NoFiles == [path \in {} |-> <<>>]

\* a new container: the image writes its own configuration and a new world
FreshFiles == [path \in Range(FilesToSave) |-> <<"i">>]

FreshWorld == "w0"

NoPod == [phase |-> "none", files |-> NoFiles, world |-> "none"]

\* what the running game may write into a tracked file
EditContents == { <<>>, <<"a", "CR", "LF", "b">> }

EditWorlds == {"w1"}

(***************************************************************************)
(* Validators.  A string is the sequence of its characters; "LF" is the    *)
(* newline.                                                                *)
(***************************************************************************)
\* [a-z0-9\-]: the lowercase letters and digits that occur in the strings
\* considered, and the hyphen
IdChars == {"a", "d", "e", "f", "g", "l", "m", "t", "u", "1", "-"}

AllIn(value, chars) == \A i \in 1..Len(value) : value[i] \in chars

\* re.match(r'^[a-z0-9\-]+$', value): $ matches at the end of the string and
\* before a newline that ends the string
IdPatternMatches(value) ==
    /\ Len(value) >= 1
    /\ \/ AllIn(value, IdChars)
       \/ /\ Len(value) >= 2
          /\ Last(value) = "LF"
          /\ AllIn(SubSeq(value, 1, Len(value) - 1), IdChars)

MaxServerIdLen == 50

MaxNamespaceLen == 63

\* ServerIdValidator.__call__: "ok" when value is returned, else the
\* ValidationError that is raised
ServerIdValidator(value) ==
    IF ~IdPatternMatches(value) THEN "only lowercase letters, numbers, and hyphens"
    ELSE IF Len(value) > MaxServerIdLen THEN "50 characters or less"
    ELSE IF Head(value) = "-" \/ Last(value) = "-" THEN "cannot start or end with a hyphen"
    ELSE "ok"

\* NamespaceValidator.__call__
NamespaceValidator(value) ==
    IF ~IdPatternMatches(value) THEN "only lowercase letters, numbers, and hyphens"
    ELSE IF Len(value) > MaxNamespaceLen THEN "63 characters or less"
    ELSE "ok"

\* validate.OneOf(['standard'])
Packages == {"standard"}

\* StartServerSchema().load(data) raises no ValidationError: package and
\* server_id are required, namespace has a default
StartServerSchemaLoads(data) ==
    /\ "package" \in data.fields /\ data.package \in Packages
    /\ "server_id" \in data.fields /\ ServerIdValidator(data.server_id) = "ok"
    /\ "namespace" \in data.fields => NamespaceValidator(data.namespace) = "ok"

\* the body of a request: whether it is JSON data, the fields the data has
\* and their values
NoBody == [json |-> FALSE, fields |-> {}, package |-> "", server_id |-> <<>>,
           namespace |-> <<>>]

ServerIdString == <<"g", "a", "m", "e", "-", "1">>

\* bodies of POST /start-server: the valid ones for ServerId, with and
\* without a namespace, and bodies with one thing wrong
StartBodies ==
    LET valid == [json |-> TRUE, fields |-> {"package", "server_id"},
                  package |-> "standard", server_id |-> ServerIdString,
                  namespace |-> <<>>]
    IN  { valid,
          [valid EXCEPT !.fields = @ \cup {"namespace"},
                        !.namespace = <<"d", "e", "f", "a", "u", "l", "t">>],
          NoBody,
          [valid EXCEPT !.fields = {"package"}, !.server_id = <<>>],
          [valid EXCEPT !.fields = {"server_id"}, !.package = ""],
          [valid EXCEPT !.server_id = <<"G", "a", "m", "e", "_", "1">>],
          [valid EXCEPT !.server_id = <<"-", "g", "a", "m", "e">>],
          [valid EXCEPT !.package = "premium"],
          [valid EXCEPT !.fields = @ \cup {"namespace"},
                        !.namespace = <<"D", "e", "v">>] }

Bodies(op) == IF op = "start" THEN StartBodies ELSE {NoBody}

(***************************************************************************)
(* Request handlers.  A call record holds the handler's position (pc), its *)
(* locals (existing, contents, saved, listing, attempt, ready, seen_ip),   *)
(* its response (status, r_flag = files_restored of start, r_files = the   *)
(* file list of the response, r_ip, r_port, r_state = the status it tells, *)
(* r_error = the error of a 400 or of a 404 of the status endpoint), the    *)
(* body of the request until it is validated and, as history, the          *)
(* requests it issued (log), whether one of them failed for the cluster's  *)
(* or the store's reasons (faulted) and which one (failed), and the store, *)
(* the deployment and the service as they were when the call began         *)
(* (pre_store, pre_dep, pre_svc, pre_replicas), and the operations that    *)
(* were in progress when it began (overlaps).                              *)
(*                                                                         *)
(* hist follows one backup and the restore after it: the files of the      *)
(* running server (deployment with one replica, pod Running) when pause or *)
(* stop was called, the files that call reported saved, and whether the    *)
(* resume or start that followed has answered 200 without a failure;      *)
(* again tells that the call before this pause was a pause of the same     *)
(* container (still there, scaled to zero), with the same files and world, *)
(* that answered 200.                                                      *)
(***************************************************************************)
NoHist ==
    [kind |-> "none", stage |-> "none", files |-> NoFiles, world |-> "none",
     saved |-> <<>>, again |-> FALSE]

IdleCall ==
    [op |-> "idle", pc |-> "done", body |-> NoBody,
     existing |-> <<>>, contents |-> <<>>, saved |-> <<>>,
     listing |-> <<>>, attempt |-> 0, ready |-> FALSE,
     seen_ip |-> 0,
     status |-> 0, r_flag |-> FALSE, r_files |-> <<>>, r_ip |-> 0, r_port |-> 0,
     r_state |-> "", r_error |-> "",
     faulted |-> FALSE, failed |-> "none", log |-> <<>>,
     pre_store |-> store, pre_dep |-> dep.exists, pre_svc |-> svc.exists,
     pre_replicas |-> dep.replicas, overlaps |-> {}]

FirstPc(op) ==
    CASE op = "start" -> "s_validate"
      [] op = "stop" -> "copy"
      [] op = "pause" -> "copy"
      [] op = "resume" -> "r_scale"
      [] op = "status" -> "g_list"

\* the response of a handler: jsonify(...), status; the locals that are not
\* part of the response end with the call
Respond(c, status, flag, files, ip, port, state) ==
    [c EXCEPT !.pc = "done", !.status = status, !.r_flag = flag, !.r_files = files,
              !.r_ip = ip, !.r_port = port, !.r_state = state,
              !.contents = <<>>, !.attempt = 0, !.seen_ip = 0]

\* except Exception as e: return jsonify(error), 500
Error500(c) == Respond(c, 500, FALSE, <<>>, 0, 0, "")

Fault(c) == Error500([c EXCEPT !.faulted = TRUE])

\* the request that failed, when it is one the handler does not catch
FaultAt(c, request) == Fault([c EXCEPT !.failed = request])

\* the request that failed, when its failure is caught and the handler goes on
Caught(c, request) == [c EXCEPT !.faulted = TRUE, !.failed = request]

Log(c, events) == [c EXCEPT !.log = @ \o events]

HistOnInvoke(op) ==
    CASE op \in {"pause", "stop"} ->
            IF dep.exists /\ dep.replicas = 1 /\ pod.phase = "Running"
            THEN [kind |-> op, stage |-> "backing", files |-> pod.files,
                  world |-> pod.world, saved |-> <<>>, again |-> FALSE]
            ELSE IF /\ op = "pause" /\ pod.phase = "Running"
                    /\ hist.kind = "pause" /\ hist.stage \in {"saved", "saved again"}
                    /\ hist.files = pod.files /\ hist.world = pod.world
                 THEN [hist EXCEPT !.stage = "backing again", !.again = TRUE]
                 ELSE NoHist
      [] op = "resume" ->
            IF hist.kind = "pause" /\ hist.stage = "saved"
            THEN [hist EXCEPT !.stage = "restoring"] ELSE NoHist
      [] op = "start" ->
            IF hist.kind = "stop" /\ hist.stage = "saved"
            THEN [hist EXCEPT !.stage = "restoring"] ELSE NoHist
      [] op = "status" -> hist

HistOnCall(h, c) ==
    IF c.pc # "done" \/ c.op = "status" THEN h
    ELSE CASE h.stage = "backing" ->
                 IF c.status = 200 /\ ~c.faulted
                 THEN [h EXCEPT !.stage = "saved", !.saved = c.r_files] ELSE NoHist
           [] h.stage = "backing again" ->
                 IF c.status = 200 /\ ~c.faulted
                 THEN [h EXCEPT !.stage = "saved again"] ELSE NoHist
           [] h.stage = "restoring" ->
                 IF c.status = 200 /\ ~c.faulted /\ (h.kind = "pause" => c.ready)
                 THEN [h EXCEPT !.stage = "restored"] ELSE NoHist
           [] OTHER -> NoHist

\* connection_info of a start that answered 200, and the cycles (a pause
\* that answered 200, then a resume that answered 200) completed after it; it
\* stands while only pause and resume are called after that start
NotStarted == [ip |-> 0, port |-> 0, cycles |-> 0, paused |-> FALSE]

StartedOnInvoke(op) ==
    IF op \in {"pause", "resume", "status"} THEN started ELSE NotStarted

StartedOnCall(c) ==
    IF c.pc = "done" /\ c.status = 200
    THEN CASE c.op = "start" ->
                 [ip |-> c.r_ip, port |-> c.r_port, cycles |-> 0, paused |-> FALSE]
           [] c.op = "pause" /\ started # NotStarted ->
                 [started EXCEPT !.paused = TRUE]
           [] c.op = "resume" /\ started.paused ->
                 [started EXCEPT !.paused = FALSE,
                                 !.cycles = IF @ < MaxCycles THEN @ + 1 ELSE @]
           [] OTHER -> started
    ELSE started

\* no service method or helper was called directly
NoProbe == [op |-> "none"]

Set(p, c) ==
    /\ call' = [call EXCEPT ![p] = c]
    /\ hist' = HistOnCall(hist, c)
    /\ started' = StartedOnCall(c)
    /\ UNCHANGED probe

At(p, op, pc) == call[p].op = op /\ call[p].pc = pc

CanFault == faults > 0

\* the operations of the requests being handled
InProgress == {call[q].op : q \in {q \in DOMAIN call : call[q].pc # "done"}}

\* a request arrives and its handler begins
Request(p, op) ==
    /\ \E body \in Bodies(op) :
          call' = [call EXCEPT ![p] = [IdleCall EXCEPT !.op = op, !.pc = FirstPc(op),
                                                       !.body = body,
                                                       !.overlaps = InProgress]]
    /\ hist' = HistOnInvoke(op)
    /\ started' = StartedOnInvoke(op)
    /\ UNCHANGED probe
    /\ UNCHANGED <<store, dep, pod, svc, pip, faults, edits>>

\* a request arrives; callers serialize the calls on one server id
Invoke(p, op) ==
    /\ \A q \in DOMAIN call : call[q].pc = "done"
    /\ Request(p, op)

(***************************************************************************)
(* start_server                                                            *)
(***************************************************************************)
\* a start_server that seeds the default files on every start
IsNewServerAlways(existing_files) == TRUE

\* if not existing_files
IsNewServer(existing_files) == existing_files = <<>>

\* the 400 of a handler
Error400(c, error) ==
    [Respond(c, 400, FALSE, <<>>, 0, 0, "") EXCEPT !.r_error = error, !.body = NoBody]

\* a start_server that does not look at the request before it goes on
start_server_validate_unchecked(p) ==
    /\ At(p, "start", "s_validate")
    /\ Set(p, [call[p] EXCEPT !.pc = "s_list", !.body = NoBody])
    /\ UNCHANGED <<store, dep, pod, svc, pip, faults, edits>>

\* data = request.get_json(force=True); StartServerSchema().load(data); the
\* server_id of validated data is ServerId
start_server_validate(p) ==
    /\ At(p, "start", "s_validate")
    /\ LET data == call[p].body
       IN  Set(p, IF ~data.json THEN Error400(call[p], "No data provided")
                  ELSE IF ~StartServerSchemaLoads(data)
                       THEN Error400(call[p], "Validation failed")
                       ELSE [call[p] EXCEPT !.pc = "s_list", !.body = NoBody])
    /\ UNCHANGED <<store, dep, pod, svc, pip, faults, edits>>

\* existing_files = b2_service.list_files(server_id)
start_server_list(p) ==
    /\ At(p, "start", "s_list")
    /\ \/ /\ LET existing == list_files(store, ServerId)
             IN  Set(p, [call[p] EXCEPT !.existing = existing,
                            !.pc = IF IsNewServer(existing) THEN "s_seed" ELSE "s_deploy"])
          /\ UNCHANGED faults
       \/ /\ CanFault
          /\ faults' = faults - 1
          /\ Set(p, FaultAt(call[p], "list"))
    /\ UNCHANGED <<store, dep, pod, svc, pip, edits>>

\* the store after the first n default files were put
RECURSIVE SeedStore(_, _)
SeedStore(st, n) ==
    IF n = 0 THEN st
    ELSE update_file(SeedStore(st, n - 1), ServerId, DefaultFileOrder[n],
                     DefaultFileContent(DefaultFileOrder[n]), FALSE)

\* for filename, content in default_files.items(): b2_service.update_file(...);
\* a failing update_file raises out of the handler
start_server_seed(p) ==
    /\ At(p, "start", "s_seed")
    /\ \/ /\ store' = SeedStore(store, Len(DefaultFileOrder))
          /\ Set(p, Log([call[p] EXCEPT !.pc = "s_deploy"],
                        [i \in 1..Len(DefaultFileOrder) |-> "put"]))
          /\ UNCHANGED faults
       \/ /\ CanFault
          /\ faults' = faults - 1
          /\ \E n \in 1..Len(DefaultFileOrder) :
                /\ store' = SeedStore(store, n - 1)
                /\ Set(p, Log(FaultAt(call[p], "put"), [i \in 1..n |-> "put"]))
    /\ UNCHANGED <<dep, pod, svc, pip, edits>>

\* a deploy_game_server that goes on when the deployment exists
deploy_game_server_tolerant(p) ==
    /\ At(p, "start", "s_deploy")
    /\ IF dep.exists
       THEN /\ Set(p, [call[p] EXCEPT !.pc = "s_svc"])
            /\ UNCHANGED dep
       ELSE /\ dep' = [exists |-> TRUE, replicas |-> 1]
            /\ Set(p, Log([call[p] EXCEPT !.pc = "s_svc"], <<"dep_create">>))
    /\ UNCHANGED <<store, pod, svc, pip, faults, edits>>

\* KubernetesService.deploy_game_server: create_from_yaml raises when the
\* deployment exists; the handler's except clause answers 500
deploy_game_server(p) ==
    /\ At(p, "start", "s_deploy")
    /\ \/ /\ ~dep.exists
          /\ dep' = [exists |-> TRUE, replicas |-> 1]
          /\ Set(p, Log([call[p] EXCEPT !.pc = "s_svc"], <<"dep_create">>))
          /\ UNCHANGED faults
       \/ /\ dep.exists
          /\ Set(p, Error500(call[p]))
          /\ UNCHANGED <<dep, faults>>
       \/ /\ CanFault
          /\ faults' = faults - 1
          /\ Set(p, FaultAt(call[p], "dep_create"))
          /\ UNCHANGED dep
    /\ UNCHANGED <<store, pod, svc, pip, edits>>

\* the response of start_server
StartResponse(c, ip) ==
    Respond(c, 200, c.existing # <<>>, c.existing, ip, GamePort, "")

\* a create_game_service that does not return the address of an existing
\* service: it goes on to the static ip and the creation, which the cluster
\* rejects for the name that exists
create_game_service_no_reuse(p) ==
    /\ At(p, "start", "s_svc")
    /\ \/ /\ ~svc.exists
          /\ pip' = TRUE
          /\ svc' = [exists |-> TRUE, ip |-> 0]
          /\ Set(p, Log([call[p] EXCEPT !.pc = "s_poll", !.attempt = 0],
                        <<"pip", "svc_create">>))
          /\ UNCHANGED faults
       \/ /\ svc.exists
          /\ pip' = TRUE
          /\ Set(p, Log(Error500(call[p]), <<"pip">>))
          /\ UNCHANGED <<svc, faults>>
       \/ /\ CanFault
          /\ faults' = faults - 1
          /\ Set(p, FaultAt(call[p], "svc_read"))
          /\ UNCHANGED <<svc, pip>>
    /\ UNCHANGED <<store, dep, pod, edits>>

\* a create_game_service that waits for the address of an existing service
\* in the polling loop
create_game_service_polling(p) ==
    /\ At(p, "start", "s_svc")
    /\ \/ /\ svc.exists /\ svc.ip # 0
          /\ Set(p, [call[p] EXCEPT !.pc = "s_poll", !.attempt = 0])
          /\ UNCHANGED <<svc, pip, faults>>
       \/ /\ ~svc.exists
          /\ pip' = TRUE
          /\ svc' = [exists |-> TRUE, ip |-> 0]
          /\ Set(p, Log([call[p] EXCEPT !.pc = "s_poll", !.attempt = 0],
                        <<"pip", "svc_create">>))
          /\ UNCHANGED faults
       \/ /\ svc.exists /\ svc.ip = 0
          /\ pip' = TRUE
          /\ Set(p, Log(Error500(call[p]), <<"pip">>))
          /\ UNCHANGED <<svc, faults>>
       \/ /\ CanFault
          /\ faults' = faults - 1
          /\ Set(p, FaultAt(call[p], "svc_read"))
          /\ UNCHANGED <<svc, pip>>
    /\ UNCHANGED <<store, dep, pod, edits>>

\* create_game_service: an existing service with an ingress ip is reused;
\* otherwise the static ip and the service are created
create_game_service(p) ==
    /\ At(p, "start", "s_svc")
    /\ \/ /\ svc.exists /\ svc.ip # 0
          /\ Set(p, StartResponse(call[p], svc.ip))
          /\ UNCHANGED <<svc, pip, faults>>
       \/ /\ ~svc.exists
          /\ pip' = TRUE
          /\ svc' = [exists |-> TRUE, ip |-> 0]
          /\ Set(p, Log([call[p] EXCEPT !.pc = "s_poll", !.attempt = 0],
                        <<"pip", "svc_create">>))
          /\ UNCHANGED faults
       \/ /\ svc.exists /\ svc.ip = 0
          /\ pip' = TRUE
          /\ Set(p, Log(Error500(call[p]), <<"pip">>))
          /\ UNCHANGED <<svc, faults>>
       \/ /\ CanFault
          /\ faults' = faults - 1
          /\ Set(p, FaultAt(call[p], "svc_read"))
          /\ UNCHANGED <<svc, pip>>
    /\ UNCHANGED <<store, dep, pod, edits>>

\* a create_game_service that returns external_ip after the loop without
\* testing it
create_game_service_poll_unchecked(p) ==
    /\ At(p, "start", "s_poll")
    /\ \/ /\ svc.exists /\ svc.ip # 0
          /\ Set(p, StartResponse(call[p], svc.ip))
       \/ /\ svc.exists /\ svc.ip = 0
          /\ Set(p, IF call[p].attempt + 1 = IpPollAttempts
                    THEN StartResponse([call[p] EXCEPT !.attempt = @ + 1], 0)
                    ELSE [call[p] EXCEPT !.attempt = @ + 1])
    /\ UNCHANGED <<store, dep, pod, svc, pip, faults, edits>>

\* for attempt in range(12): read the service; an ingress ip ends the wait
create_game_service_poll(p) ==
    /\ At(p, "start", "s_poll")
    /\ \/ /\ svc.exists /\ svc.ip # 0
          /\ Set(p, StartResponse(call[p], svc.ip))
       \/ /\ svc.exists /\ svc.ip = 0
          /\ Set(p, IF call[p].attempt + 1 = IpPollAttempts
                    THEN Error500([call[p] EXCEPT !.attempt = @ + 1])
                    ELSE [call[p] EXCEPT !.attempt = @ + 1])
    /\ UNCHANGED <<store, dep, pod, svc, pip, faults, edits>>

(***************************************************************************)
(* copy_files_from_pod and the saving loop, shared by stop_server and      *)
(* pause_server.                                                           *)
(***************************************************************************)
Backup(p) == call[p].op \in {"stop", "pause"}

\* kubectl exec ... cat /data/<file_path>: return code 0
CatSucceeds(file_path) == pod.phase = "Running" /\ file_path \in DOMAIN pod.files

\* result.stdout of a run with text=True
CatOutput(file_path) == TranslateNewlines(pod.files[file_path])

\* file_contents: the files that were read, in the order of file_paths; the
\* files of `lost` are those whose read failed for the cluster's reasons
RECURSIVE ReadFiles(_, _)
ReadFiles(file_paths, lost) ==
    IF file_paths = <<>> THEN <<>>
    ELSE LET file_path == Head(file_paths)
         IN  (IF CatSucceeds(file_path) /\ file_path \notin lost
              THEN << <<file_path, CatOutput(file_path)>> >>
              ELSE <<>>) \o ReadFiles(Tail(file_paths), lost)

\* copy_files_from_pod: no pod gives {}; a file that cannot be read is left
\* out of the dictionary
copy_files_from_pod(p) ==
    /\ Backup(p) /\ call[p].pc = "copy"
    /\ \/ /\ pod.phase = "none"
          /\ Set(p, [call[p] EXCEPT !.contents = <<>>, !.pc = "save"])
          /\ UNCHANGED faults
       \/ /\ pod.phase # "none"
          /\ Set(p, Log([call[p] EXCEPT !.contents = ReadFiles(FilesToSave, {}),
                                        !.pc = "save"],
                        [i \in 1..Len(FilesToSave) |-> "read"]))
          /\ UNCHANGED faults
       \/ /\ pod.phase = "Running"
          /\ CanFault
          /\ faults' = faults - 1
          /\ \E file_path \in Range(FilesToSave) :
                Set(p, Log([call[p] EXCEPT !.contents = ReadFiles(FilesToSave, {file_path}),
                                           !.faulted = TRUE, !.failed = "read",
                                           !.pc = "save"],
                           [i \in 1..Len(FilesToSave) |-> "read"]))
    /\ UNCHANGED <<store, dep, pod, svc, pip, edits>>

\* a pause_server that asks for the scaling before it archives the world
PauseNextPcScaleFirst(pc) ==
    CASE pc = "save" -> "p_scale"
      [] pc = "p_scale" -> "p_world"
      [] pc = "p_world" -> "done"

\* the order of pause_server's stages after file_contents was read: the
\* saving loop, the world backup, the scaling, the response
PauseNextPc(pc) ==
    CASE pc = "save" -> "p_world"
      [] pc = "p_world" -> "p_scale"
      [] pc = "p_scale" -> "done"

\* where the handler goes after the saving loop
AfterSave(op) == IF op = "pause" THEN PauseNextPc("save") ELSE "t_delete"

\* a saving loop without the test
HasContentAlways(content) == TRUE

\* if content: (the test of the saving loop)
HasContent(content) == content # <<>>

\* the saving loop over the first n items of file_contents
RECURSIVE SaveStore(_, _, _)
SaveStore(st, items, n) ==
    IF n = 0 THEN st
    ELSE LET item == items[n]
             before == SaveStore(st, items, n - 1)
         IN  IF HasContent(item[2])
             THEN update_file(before, ServerId, item[1], item[2], FALSE)
             ELSE before

SavedFiles(items) ==
    LET kept == SelectSeq(items, LAMBDA item : HasContent(item[2]))
    IN  [i \in 1..Len(kept) |-> kept[i][1]]

\* for file_path, content in file_contents.items(): if content: update_file;
\* a failing update_file raises out of the handler
save_files(p) ==
    /\ Backup(p) /\ call[p].pc = "save"
    /\ \/ /\ store' = SaveStore(store, call[p].contents, Len(call[p].contents))
          /\ Set(p, Log([call[p] EXCEPT !.saved = SavedFiles(call[p].contents),
                                        !.pc = AfterSave(call[p].op)],
                        [i \in 1..Len(SavedFiles(call[p].contents)) |-> "put"]))
          /\ UNCHANGED faults
       \/ /\ CanFault
          /\ faults' = faults - 1
          /\ \E n \in 1..Len(call[p].contents) :
                /\ HasContent(call[p].contents[n][2])
                /\ store' = SaveStore(store, call[p].contents, n - 1)
                /\ Set(p, Log(FaultAt(call[p], "put"),
                              [i \in 1..Len(SavedFiles(SubSeq(call[p].contents, 1, n))) |-> "put"]))
    /\ UNCHANGED <<dep, pod, svc, pip, edits>>

(***************************************************************************)
(* stop_server                                                             *)
(***************************************************************************)
\* KubernetesService.delete_deployment: the deployment, then the service;
\* either request raises when its object is missing or the cluster fails
delete_deployment(p) ==
    /\ At(p, "stop", "t_delete")
    /\ \/ /\ dep.exists
          /\ dep' = [exists |-> FALSE, replicas |-> 0]
          /\ Set(p, Log([call[p] EXCEPT !.pc = "t_delete_svc"], <<"dep_delete">>))
          /\ UNCHANGED faults
       \/ /\ ~dep.exists
          /\ Set(p, Error500(call[p]))
          /\ UNCHANGED <<dep, faults>>
       \/ /\ CanFault
          /\ faults' = faults - 1
          /\ Set(p, FaultAt(call[p], "dep_delete"))
          /\ UNCHANGED dep
    /\ UNCHANGED <<store, pod, svc, pip, edits>>

\* a delete_deployment that logs a failing deletion of the service and
\* returns as if it had succeeded
delete_deployment_service_swallowing(p) ==
    /\ At(p, "stop", "t_delete_svc")
    /\ \/ /\ svc.exists
          /\ svc' = [exists |-> FALSE, ip |-> 0]
          /\ Set(p, Log(Respond(call[p], 200, FALSE, call[p].saved, 0, 0, ""),
                        <<"svc_delete">>))
          /\ UNCHANGED faults
       \/ /\ ~svc.exists
          /\ Set(p, Respond(call[p], 200, FALSE, call[p].saved, 0, 0, ""))
          /\ UNCHANGED <<svc, faults>>
       \/ /\ CanFault
          /\ faults' = faults - 1
          /\ Set(p, Respond(Caught(call[p], "svc_delete"), 200, FALSE, call[p].saved, 0, 0, ""))
          /\ UNCHANGED svc
    /\ UNCHANGED <<store, dep, pod, pip, edits>>

\* a delete_deployment that answers without deleting the service
delete_deployment_service_skipped(p) ==
    /\ At(p, "stop", "t_delete_svc")
    /\ Set(p, Respond(call[p], 200, FALSE, call[p].saved, 0, 0, ""))
    /\ UNCHANGED <<store, dep, pod, svc, pip, faults, edits>>

\* delete_namespaced_service of delete_deployment, and stop_server's response
delete_deployment_service(p) ==
    /\ At(p, "stop", "t_delete_svc")
    /\ \/ /\ svc.exists
          /\ svc' = [exists |-> FALSE, ip |-> 0]
          /\ Set(p, Log(Respond(call[p], 200, FALSE, call[p].saved, 0, 0, ""),
                        <<"svc_delete">>))
          /\ UNCHANGED faults
       \/ /\ ~svc.exists
          /\ Set(p, Error500(call[p]))
          /\ UNCHANGED <<svc, faults>>
       \/ /\ CanFault
          /\ faults' = faults - 1
          /\ Set(p, FaultAt(call[p], "svc_delete"))
          /\ UNCHANGED svc
    /\ UNCHANGED <<store, dep, pod, pip, edits>>

(***************************************************************************)
(* pause_server                                                            *)
(***************************************************************************)
\* the response of pause_server
PauseResponse(c) == Respond(c, 200, FALSE, c.saved, 0, 0, "paused")

PauseGoto(c, pc) ==
    IF PauseNextPc(pc) = "done" THEN PauseResponse(c) ELSE [c EXCEPT !.pc = PauseNextPc(pc)]

\* the world backup: tar /data/world in the pod, read it as base64, decode,
\* encode again and store it under world.tar.gz.b64; every exception of
\* this block is caught and logged
WorldArchive == B64Encode(B64Decode(B64Encode(TarWorld(pod.world))))

\* a pause_server that saves the archive it has, an empty one when no
\* container could be archived
pause_server_world_unguarded(p) ==
    /\ At(p, "pause", "p_world")
    /\ store' = update_file(store, ServerId, WorldBackupFile,
                            IF pod.phase = "Running" THEN WorldArchive ELSE <<>>, FALSE)
    /\ Set(p, Log(PauseGoto([call[p] EXCEPT !.saved = Append(@, WorldBackupFile)],
                            "p_world"),
                  <<"archive", "put">>))
    /\ UNCHANGED <<dep, pod, svc, pip, faults, edits>>

pause_server_world(p) ==
    /\ At(p, "pause", "p_world")
    /\ \/ /\ pod.phase = "Running"
          /\ store' = update_file(store, ServerId, WorldBackupFile, WorldArchive, FALSE)
          /\ Set(p, Log(PauseGoto([call[p] EXCEPT !.saved = Append(@, WorldBackupFile)],
                                  "p_world"),
                        <<"archive", "put">>))
          /\ UNCHANGED faults
       \/ /\ pod.phase # "Running"
          /\ Set(p, PauseGoto(call[p], "p_world"))
          /\ UNCHANGED <<store, faults>>
       \/ /\ pod.phase = "Running"
          /\ CanFault
          /\ faults' = faults - 1
          /\ Set(p, Log(PauseGoto(Caught(call[p], "archive"), "p_world"),
                        <<"archive", "put">>))
          /\ UNCHANGED store
    /\ UNCHANGED <<dep, pod, svc, pip, edits>>

\* a pause_server that catches and logs a failing scale_deployment
pause_server_scale_lenient(p) ==
    /\ At(p, "pause", "p_scale")
    /\ \/ /\ dep.exists
          /\ dep' = [dep EXCEPT !.replicas = 0]
          /\ Set(p, Log(PauseGoto(call[p], "p_scale"), <<"scale">>))
          /\ UNCHANGED faults
       \/ /\ ~dep.exists
          /\ Set(p, PauseGoto(call[p], "p_scale"))
          /\ UNCHANGED <<dep, faults>>
       \/ /\ CanFault
          /\ faults' = faults - 1
          /\ Set(p, PauseGoto(Caught(call[p], "scale"), "p_scale"))
          /\ UNCHANGED dep
    /\ UNCHANGED <<store, pod, svc, pip, edits>>

\* a pause_server that calls delete_deployment where it should scale
pause_server_scale_deleting(p) ==
    /\ At(p, "pause", "p_scale")
    /\ dep.exists
    /\ dep' = [exists |-> FALSE, replicas |-> 0]
    /\ svc' = [exists |-> FALSE, ip |-> 0]
    /\ Set(p, Log(PauseGoto(call[p], "p_scale"), <<"dep_delete", "svc_delete">>))
    /\ UNCHANGED <<store, pod, pip, faults, edits>>

\* KubernetesService.scale_deployment(server_id, namespace, 0)
pause_server_scale(p) ==
    /\ At(p, "pause", "p_scale")
    /\ \/ /\ dep.exists
          /\ dep' = [dep EXCEPT !.replicas = 0]
          /\ Set(p, Log(PauseGoto(call[p], "p_scale"), <<"scale">>))
          /\ UNCHANGED faults
       \/ /\ ~dep.exists
          /\ Set(p, Error500(call[p]))
          /\ UNCHANGED <<dep, faults>>
       \/ /\ CanFault
          /\ faults' = faults - 1
          /\ Set(p, FaultAt(call[p], "scale"))
          /\ UNCHANGED dep
    /\ UNCHANGED <<store, pod, svc, pip, edits>>

(***************************************************************************)
(* resume_server                                                           *)
(***************************************************************************)
\* a resume_server that gives up when another request is being handled
resume_server_scale_exclusive(p) ==
    /\ At(p, "resume", "r_scale")
    /\ IF dep.exists /\ InProgress = {"resume"}
       THEN /\ dep' = [dep EXCEPT !.replicas = 1]
            /\ Set(p, Log([call[p] EXCEPT !.pc = "r_service"], <<"scale">>))
       ELSE /\ Set(p, Error500(call[p]))
            /\ UNCHANGED dep
    /\ UNCHANGED <<store, pod, svc, pip, faults, edits>>

\* KubernetesService.scale_deployment(server_id, namespace, 1)
resume_server_scale(p) ==
    /\ At(p, "resume", "r_scale")
    /\ \/ /\ dep.exists
          /\ dep' = [dep EXCEPT !.replicas = 1]
          /\ Set(p, Log([call[p] EXCEPT !.pc = "r_service"], <<"scale">>))
          /\ UNCHANGED faults
       \/ /\ ~dep.exists
          /\ Set(p, Error500(call[p]))
          /\ UNCHANGED <<dep, faults>>
       \/ /\ CanFault
          /\ faults' = faults - 1
          /\ Set(p, FaultAt(call[p], "scale"))
          /\ UNCHANGED dep
    /\ UNCHANGED <<store, pod, svc, pip, edits>>

\* svc = service.core_api.read_namespaced_service(service_name, namespace)
resume_server_service(p) ==
    /\ At(p, "resume", "r_service")
    /\ \/ /\ svc.exists
          /\ Set(p, [call[p] EXCEPT !.seen_ip = svc.ip, !.attempt = 0, !.pc = "r_poll"])
       \/ /\ ~svc.exists
          /\ Set(p, Error500(call[p]))
    /\ UNCHANGED <<store, dep, pod, svc, pip, faults, edits>>

\* a resume_server that waits for as long as the pod is not Running
resume_server_poll_until_running(p) ==
    /\ At(p, "resume", "r_poll")
    /\ \/ /\ pod.phase = "Running"
          /\ Set(p, [call[p] EXCEPT !.ready = TRUE, !.pc = "r_restore"])
       \/ /\ pod.phase # "Running"
          /\ Set(p, [call[p] EXCEPT !.attempt = IF @ + 1 < PodPollAttempts THEN @ + 1 ELSE 0])
    /\ UNCHANGED <<store, dep, pod, svc, pip, faults, edits>>

\* for attempt in range(12): a pod in phase Running ends the wait; after the
\* last attempt the handler goes on ("but continuing...")
resume_server_poll(p) ==
    /\ At(p, "resume", "r_poll")
    /\ \/ /\ pod.phase = "Running"
          /\ Set(p, [call[p] EXCEPT !.ready = TRUE, !.pc = "r_restore"])
       \/ /\ pod.phase # "Running"
          /\ Set(p, [call[p] EXCEPT !.attempt = @ + 1,
                                    !.pc = IF call[p].attempt + 1 = PodPollAttempts
                                           THEN "r_restore" ELSE "r_poll"])
    /\ UNCHANGED <<store, dep, pod, svc, pip, faults, edits>>

\* b2_service.get_file(server_id, world_backup_file, is_binary=True): a
\* keyword get_file does not accept raises TypeError, which the except clause
\* around the world restore catches
WorldGetRaises == "is_binary" \notin GetFileParams

\* the world restore ran to its end: restored_files.append(world_backup_file)
WorldRestored(listing, lost) ==
    /\ WorldBackupFile \in Range(listing)
    /\ ~WorldGetRaises
    /\ GetFileFound(store, ServerId, WorldBackupFile)
    /\ WorldBackupFile \notin lost
    /\ pod.phase = "Running"

\* rm -rf /data/world && tar -xzf /tmp/world.tar.gz -C /data
ExtractedWorld == UntarWorld(B64Decode(get_file(store, ServerId, WorldBackupFile)))

\* a restore loop that skips the directory entries only
SkipOnRestoreDirectories(file_path) == Last(file_path) = ""

\* if file_path.endswith('/') or file_path == world_backup_file: continue
SkipOnRestore(file_path) == Last(file_path) = "" \/ file_path = WorldBackupFile

\* one pass of the restore loop ended with restored_files.append(file_path)
FileRestored(file_path, lost) ==
    /\ ~SkipOnRestore(file_path)
    /\ GetFileFound(store, ServerId, file_path)
    /\ file_path \notin lost
    /\ pod.phase = "Running"

\* sh -c 'cat > /data/<file_path>' with the content on stdin
WriteFile(files, file_path, content) ==
    [f \in DOMAIN files \cup {file_path} |-> IF f = file_path THEN content ELSE files[f]]

\* the files of the container after the restore loop over listing[1..n]
RECURSIVE RestoreFiles(_, _, _, _)
RestoreFiles(files, listing, n, lost) ==
    IF n = 0 THEN files
    ELSE LET before == RestoreFiles(files, listing, n - 1, lost)
         IN  IF FileRestored(listing[n], lost)
             THEN WriteFile(before, listing[n], get_file(store, ServerId, listing[n]))
             ELSE before

\* restored_files, in the order they were appended
RestoredFiles(listing, lost) ==
    (IF WorldRestored(listing, lost) THEN <<WorldBackupFile>> ELSE <<>>)
    \o SelectSeq(listing, LAMBDA file_path : FileRestored(file_path, lost))

\* the requests the restore issues to the container, in order
RestoreEvents(listing, lost) ==
    (IF WorldRestored(listing, lost) THEN <<"extract">> ELSE <<>>)
    \o [i \in 1..Len(SelectSeq(listing, LAMBDA file_path : FileRestored(file_path, lost)))
          |-> "write"]

\* a resume_server that leaves the address and the port out of its answer
ResumeResponseNoEndpoint(c, restored) ==
    Respond(c, 200, FALSE, restored, 0, 0, "running")

\* the response of resume_server
ResumeResponse(c, restored) ==
    Respond(c, 200, FALSE, restored, c.seen_ip,
            IF c.seen_ip # 0 THEN GamePort ELSE 0, "running")

\* the restore: with no pod nothing is restored; otherwise the store is
\* listed, the world backup is restored first, then every listed file; a
\* failure of one get or write is caught and that file left out
resume_server_restore(p) ==
    /\ At(p, "resume", "r_restore")
    /\ \/ /\ pod.phase = "none"
          /\ Set(p, ResumeResponse(call[p], <<>>))
          /\ UNCHANGED <<pod, faults>>
       \/ /\ pod.phase # "none"
          /\ LET listing == list_files(store, ServerId)
             IN  /\ pod' = [pod EXCEPT
                              !.files = RestoreFiles(@, listing, Len(listing), {}),
                              !.world = IF WorldRestored(listing, {})
                                        THEN ExtractedWorld ELSE @]
                 /\ Set(p, Log(ResumeResponse([call[p] EXCEPT !.listing = listing],
                                              RestoredFiles(listing, {})),
                               RestoreEvents(listing, {})))
          /\ UNCHANGED faults
       \/ /\ pod.phase # "none"
          /\ CanFault
          /\ faults' = faults - 1
          /\ Set(p, FaultAt(call[p], "list"))
          /\ UNCHANGED pod
       \/ /\ pod.phase = "Running"
          /\ CanFault
          /\ faults' = faults - 1
          /\ LET listing == list_files(store, ServerId)
             IN  \E file_path \in Range(listing) :
                    /\ pod' = [pod EXCEPT
                                 !.files = RestoreFiles(@, listing, Len(listing), {file_path}),
                                 !.world = IF WorldRestored(listing, {file_path})
                                           THEN ExtractedWorld ELSE @]
                    /\ Set(p, Log(ResumeResponse([Caught(call[p], "restore")
                                                    EXCEPT !.listing = listing],
                                                 RestoredFiles(listing, {file_path})),
                                  RestoreEvents(listing, {file_path})))
    /\ UNCHANGED <<store, dep, svc, pip, edits>>

(***************************************************************************)
(* get_server_status                                                       *)
(***************************************************************************)
MaxReplicas == 3

\* a count of the deployment object: None, or a number
NoCount == [set |-> FALSE, n |-> 0]

ReplicaCounts == {NoCount} \cup {[set |-> TRUE, n |-> n] : n \in 0..MaxReplicas}

\* count or 0
OrZero(count) == IF count.set /\ count.n # 0 THEN count.n ELSE 0

\* list_servers: "Determine server status"
ListedStatus(deployment) ==
    LET ready_replicas == OrZero(deployment.ready_replicas)
        desired_replicas == OrZero(deployment.replicas)
    IN  IF ready_replicas = desired_replicas /\ ready_replicas > 0 THEN "running"
        ELSE IF ready_replicas = 0 /\ desired_replicas = 0 THEN "paused"
        ELSE IF ready_replicas < desired_replicas THEN "starting"
        ELSE "unknown"

\* get_server_status: "Determine detailed status"
DetailedStatus(deployment) ==
    LET ready_replicas == OrZero(deployment.ready_replicas)
        desired_replicas == OrZero(deployment.replicas)
        available_replicas == OrZero(deployment.available_replicas)
    IN  IF ready_replicas = desired_replicas /\ ready_replicas > 0 THEN "running"
        ELSE IF ready_replicas = 0 /\ desired_replicas = 0 THEN "paused"
        ELSE IF ready_replicas < desired_replicas THEN "starting"
        ELSE IF available_replicas < ready_replicas THEN "degraded"
        ELSE "unknown"

\* the deployment as the cluster reports it: a count of zero is not set
Reported(n) == IF n = 0 THEN NoCount ELSE [set |-> TRUE, n |-> n]

ReadyPods == IF pod.phase = "Running" THEN 1 ELSE 0

DeploymentObject ==
    [ready_replicas |-> Reported(ReadyPods),
     replicas |-> [set |-> TRUE, n |-> dep.replicas],
     available_replicas |-> Reported(ReadyPods)]

\* a get_server_status that takes deployments.items[0] of an empty list
StatusNotFoundIndexError(c) == Error500(c)

\* the 404 of get_server_status
StatusNotFound(c) ==
    [Respond(c, 404, FALSE, <<>>, 0, 0, "") EXCEPT !.r_error = "Server not found"]

\* the 200 of get_server_status: status and connection_info
StatusResponse(c, external_ip, port) ==
    Respond(c, 200, FALSE, <<>>, external_ip, port, DetailedStatus(DeploymentObject))

\* GET /status/<server_id>: the deployments labelled with the server id, then
\* the service, whose failure is caught
get_server_status(p) ==
    /\ At(p, "status", "g_list")
    /\ \/ /\ ~dep.exists
          /\ Set(p, Log(StatusNotFound(call[p]), <<"dep_list">>))
          /\ UNCHANGED faults
       \/ /\ dep.exists
          /\ Set(p, Log(IF svc.exists
                        THEN StatusResponse(call[p], svc.ip, GamePort)
                        ELSE StatusResponse(call[p], 0, 0),
                        <<"dep_list", "svc_read">>))
          /\ UNCHANGED faults
       \/ /\ CanFault
          /\ faults' = faults - 1
          /\ Set(p, FaultAt(call[p], "dep_list"))
       \/ /\ CanFault /\ dep.exists
          /\ faults' = faults - 1
          /\ Set(p, Log(StatusResponse(Caught(call[p], "svc_read"), 0, 0),
                        <<"dep_list", "svc_read">>))
    /\ UNCHANGED <<store, dep, pod, svc, pip, edits>>

(***************************************************************************)
(* The cluster's own steps.                                                *)
(***************************************************************************)
\* the deployment controller starts a pod for a deployment with one replica
PodSchedule ==
    /\ dep.exists /\ dep.replicas = 1 /\ pod.phase = "none"
    /\ pod' = [phase |-> "Pending", files |-> FreshFiles, world |-> FreshWorld]
    /\ UNCHANGED <<call, store, dep, svc, pip, faults, edits, hist, started, probe>>

PodRun ==
    /\ pod.phase = "Pending"
    /\ pod' = [pod EXCEPT !.phase = "Running"]
    /\ UNCHANGED <<call, store, dep, svc, pip, faults, edits, hist, started, probe>>

\* scaled to zero or deleted: the pod goes, and its filesystem with it
PodTerminate ==
    /\ pod.phase # "none"
    /\ ~dep.exists \/ dep.replicas = 0
    /\ pod' = NoPod
    /\ UNCHANGED <<call, store, dep, svc, pip, faults, edits, hist, started, probe>>

\* the load balancer assigns the service its address
StaticAddress == 1

LbAssign ==
    /\ svc.exists /\ svc.ip = 0 /\ pip
    /\ svc' = [svc EXCEPT !.ip = StaticAddress]
    /\ UNCHANGED <<call, store, dep, pod, pip, faults, edits, hist, started, probe>>

\* the running game rewrites or removes a tracked file, or changes the
\* world, between two calls
EditPaths == { <<"server.properties">>, <<"banned-ips.json">> }

Quiet == \A q \in DOMAIN call : call[q].pc = "done"

HistOnEdit == IF hist.stage = "restored" THEN NoHist ELSE hist

EditFile ==
    /\ Quiet /\ pod.phase = "Running" /\ edits < MaxEdits
    /\ \E file_path \in EditPaths, content \in EditContents :
          pod' = [pod EXCEPT !.files = WriteFile(@, file_path, content)]
    /\ edits' = edits + 1
    /\ hist' = HistOnEdit
    /\ UNCHANGED <<call, store, dep, svc, pip, faults, started, probe>>

RemoveFile ==
    /\ Quiet /\ pod.phase = "Running" /\ edits < MaxEdits
    /\ \E file_path \in EditPaths \cap DOMAIN pod.files :
          pod' = [pod EXCEPT !.files = [f \in DOMAIN @ \ {file_path} |-> @[f]]]
    /\ edits' = edits + 1
    /\ hist' = HistOnEdit
    /\ UNCHANGED <<call, store, dep, svc, pip, faults, started, probe>>

EditWorld ==
    /\ Quiet /\ pod.phase = "Running" /\ edits < MaxEdits
    /\ \E world \in EditWorlds : pod' = [pod EXCEPT !.world = world]
    /\ edits' = edits + 1
    /\ hist' = HistOnEdit
    /\ UNCHANGED <<call, store, dep, svc, pip, faults, started, probe>>

Init ==
    /\ store = [k \in {} |-> <<>>]
    /\ dep = [exists |-> FALSE, replicas |-> 0]
    /\ pod = NoPod
    /\ svc = [exists |-> FALSE, ip |-> 0]
    /\ pip = FALSE
    /\ faults = 0
    /\ edits = 0
    /\ hist = NoHist
    /\ started = NotStarted
    /\ probe = NoProbe
    /\ call = [p \in Procs |-> [IdleCall EXCEPT !.pre_store = [k \in {} |-> <<>>],
                                              !.pre_dep = FALSE,
                                              !.pre_svc = FALSE,
                                              !.pre_replicas = 0]]

\* the same, in a cluster and a store that may fail
InitFaulty ==
    /\ store = [k \in {} |-> <<>>]
    /\ dep = [exists |-> FALSE, replicas |-> 0]
    /\ pod = NoPod
    /\ svc = [exists |-> FALSE, ip |-> 0]
    /\ pip = FALSE
    /\ faults = MaxFaults
    /\ edits = 0
    /\ hist = NoHist
    /\ started = NotStarted
    /\ probe = NoProbe
    /\ call = [p \in Procs |-> [IdleCall EXCEPT !.pre_store = [k \in {} |-> <<>>],
                                              !.pre_dep = FALSE,
                                              !.pre_svc = FALSE,
                                              !.pre_replicas = 0]]

Handler ==
    \/ \E p \in Procs, op \in {"start", "stop", "pause", "resume", "status"} : Invoke(p, op)
    \/ \E p \in Procs :
          \/ start_server_validate(p)
          \/ start_server_list(p)
          \/ start_server_seed(p)
          \/ deploy_game_server(p)
          \/ create_game_service(p)
          \/ create_game_service_poll(p)
          \/ copy_files_from_pod(p)
          \/ save_files(p)
          \/ delete_deployment(p)
          \/ delete_deployment_service(p)
          \/ pause_server_world(p)
          \/ pause_server_scale(p)
          \/ resume_server_scale(p)
          \/ resume_server_service(p)
          \/ resume_server_poll(p)
          \/ resume_server_restore(p)
          \/ get_server_status(p)

Cluster ==
    \/ PodSchedule
    \/ PodRun
    \/ PodTerminate
    \/ LbAssign

Game ==
    \/ EditFile
    \/ RemoveFile
    \/ EditWorld

Next == Handler \/ Cluster \/ Game

NextFaulty == Handler \/ Cluster

\* serial calls on a cluster that does not fail, with a game that changes files
Spec == Init /\ [][Next]_vars

\* serial calls on a cluster and a store that may fail
SpecFaulty == InitFaulty /\ [][NextFaulty]_vars

(***************************************************************************)
(* Two clients and no serialization: one starts the server and then pauses *)
(* it, the other resumes it at any time after the start was answered.      *)
(***************************************************************************)
RaceProcs == {1, 2}

InitRace ==
    /\ store = [k \in {} |-> <<>>]
    /\ dep = [exists |-> FALSE, replicas |-> 0]
    /\ pod = NoPod
    /\ svc = [exists |-> FALSE, ip |-> 0]
    /\ pip = FALSE
    /\ faults = 0
    /\ edits = 0
    /\ hist = NoHist
    /\ started = NotStarted
    /\ probe = NoProbe
    /\ call = [p \in RaceProcs |-> [IdleCall EXCEPT !.pre_store = [k \in {} |-> <<>>],
                                                  !.pre_dep = FALSE,
                                                  !.pre_svc = FALSE,
                                                  !.pre_replicas = 0]]

Answered(p, op) == call[p].op = op /\ call[p].pc = "done" /\ call[p].status = 200

\* the first client's start, and its pause once the start was answered 200
RaceFirst == \/ call[1].op = "idle" /\ Request(1, "start")
             \/ Answered(1, "start") /\ Request(1, "pause")

\* the second client's resume, whatever the first client's pause is doing
RaceSecond ==
    /\ call[2].op = "idle"
    /\ Answered(1, "start") \/ call[1].op = "pause"
    /\ Request(2, "resume")

RaceSteps ==
    \E p \in RaceProcs :
       \/ start_server_validate(p)
       \/ start_server_list(p)
       \/ start_server_seed(p)
       \/ deploy_game_server(p)
       \/ create_game_service(p)
       \/ create_game_service_poll(p)
       \/ copy_files_from_pod(p)
       \/ save_files(p)
       \/ pause_server_world(p)
       \/ pause_server_scale(p)
       \/ resume_server_scale(p)
       \/ resume_server_service(p)
       \/ resume_server_poll(p)
       \/ resume_server_restore(p)

NextRace == RaceFirst \/ RaceSecond \/ RaceSteps \/ Cluster

\* a pause and a resume of the same server id handled at the same time
SpecRace == InitRace /\ [][NextRace]_vars

(***************************************************************************)
(* Two clients that each start the same server id once, with no            *)
(* serialization.                                                          *)
(***************************************************************************)
NextStarts ==
    \/ \E p \in RaceProcs : call[p].op = "idle" /\ Request(p, "start")
    \/ \E p \in RaceProcs :
          \/ start_server_validate(p)
          \/ start_server_list(p)
          \/ start_server_seed(p)
          \/ deploy_game_server(p)
          \/ create_game_service(p)
          \/ create_game_service_poll(p)
    \/ PodSchedule
    \/ PodRun
    \/ LbAssign

\* two starts of the same server id handled at the same time
SpecStarts == InitRace /\ [][NextStarts]_vars

(***************************************************************************)
(* The resume of a paused server whose store holds, besides the files a    *)
(* start seeded, a world backup of a pause and a directory entry and a     *)
(* file put through PUT /api/bucket/files/<server_id>/<path>.              *)
(***************************************************************************)
\* what was put after the seeding: the path and the content of each put
RestorePuts ==
    { <<WorldBackupFile, B64Encode(TarWorld(FreshWorld))>>,
      << <<"plugins", "">>, <<"x">> >>,
      <<<<"ops.json">>, <<"a", "CR", "LF", "b">> >> }

\* the store after the puts of a set, each made with update_file
RECURSIVE PutAll(_, _)
PutAll(st, puts) ==
    IF puts = {} THEN st
    ELSE LET put == CHOOSE x \in puts : TRUE
         IN  update_file(PutAll(st, puts \ {put}), ServerId, put[1], put[2], FALSE)

RestoreStores ==
    {PutAll(SeedStore([k \in {} |-> <<>>], Len(DefaultFileOrder)), puts) :
        puts \in SUBSET RestorePuts}

InitRestore ==
    /\ store \in RestoreStores
    /\ dep = [exists |-> TRUE, replicas |-> 0]
    /\ pod = NoPod
    /\ svc = [exists |-> TRUE, ip |-> StaticAddress]
    /\ pip = TRUE
    /\ faults = 0
    /\ edits = 0
    /\ hist = NoHist
    /\ started = NotStarted
    /\ probe = NoProbe
    /\ call = [p \in Procs |-> [IdleCall EXCEPT !.pre_store = [k \in {} |-> <<>>],
                                              !.pre_dep = FALSE,
                                              !.pre_svc = FALSE,
                                              !.pre_replicas = 0]]

NextRestore ==
    \/ \E p \in Procs : call[p].op = "idle" /\ Request(p, "resume")
    \/ \E p \in Procs :
          \/ resume_server_scale(p)
          \/ resume_server_service(p)
          \/ resume_server_poll(p)
          \/ resume_server_restore(p)
    \/ PodSchedule
    \/ PodRun

\* one resume of a paused server, over every store of RestoreStores
SpecRestore == InitRestore /\ [][NextRestore]_vars

(***************************************************************************)
(* The waits of start_server and resume_server: serial starts and resumes  *)
(* on a cluster that may fail, may never schedule the pod and may never    *)
(* assign the address.  A handler that can take a step takes it: every     *)
(* request to the cluster or the store returns or raises and every         *)
(* time.sleep(5) ends.                                                     *)
(***************************************************************************)
WaitsSteps ==
    \E p \in Procs :
       \/ start_server_validate(p)
       \/ start_server_list(p)
       \/ start_server_seed(p)
       \/ deploy_game_server(p)
       \/ create_game_service(p)
       \/ create_game_service_poll(p)
       \/ resume_server_scale(p)
       \/ resume_server_service(p)
       \/ resume_server_poll(p)
       \/ resume_server_restore(p)

NextWaits ==
    \/ \E p \in Procs, op \in {"start", "resume"} : Invoke(p, op)
    \/ WaitsSteps
    \/ PodSchedule
    \/ PodRun
    \/ LbAssign

\* the handlers are fair, the cluster is not
SpecWaits == InitFaulty /\ [][NextWaits]_vars /\ WF_vars(WaitsSteps)

(***************************************************************************)
(* Direct calls of B2StorageService: update_file, then list_files and      *)
(* get_file with the same server id and path.                              *)
(***************************************************************************)
StoreServers == {"game-1", "game-2"}

StorePaths == { <<"ops.json">>, <<"server.properties">>, <<"game-1", "ops.json">> }

StoreTexts == { <<"a">>, <<"a", "CR", "LF", "b">> }

\* content of a call with is_binary: the bytes of a text, or bytes that are
\* no text (a gzip header)
StoreContents(is_binary) ==
    IF is_binary THEN {Utf8Encode(text) : text \in StoreTexts} \cup {<<"gz", "x">>}
    ELSE StoreTexts

NoStoreCall ==
    [op |-> "none", server_id |-> "", file_path |-> <<>>, content |-> <<>>,
     is_binary |-> FALSE, puts |-> 0,
     listing |-> <<>>, key |-> <<>>, raised |-> FALSE, got |-> <<>>]

InitStore ==
    /\ store = [k \in {} |-> <<>>]
    /\ dep = [exists |-> FALSE, replicas |-> 0]
    /\ pod = NoPod
    /\ svc = [exists |-> FALSE, ip |-> 0]
    /\ pip = FALSE
    /\ faults = 0
    /\ edits = 0
    /\ hist = NoHist
    /\ started = NotStarted
    /\ probe = NoStoreCall
    /\ call = [p \in Procs |-> [IdleCall EXCEPT !.pre_store = [k \in {} |-> <<>>],
                                              !.pre_dep = FALSE,
                                              !.pre_svc = FALSE,
                                              !.pre_replicas = 0]]

\* b2_service.update_file(server_id, file_path, content, is_binary)
StoreUpdateFile ==
    /\ probe.op \in {"none", "read"}
    /\ probe.puts < MaxPuts
    /\ \E server_id \in StoreServers, file_path \in StorePaths, is_binary \in BOOLEAN :
          \E content \in StoreContents(is_binary) :
             /\ store' = update_file(store, server_id, file_path, content, is_binary)
             /\ probe' = [NoStoreCall EXCEPT !.op = "update_file", !.server_id = server_id,
                                             !.file_path = file_path, !.content = content,
                                             !.is_binary = is_binary,
                                             !.puts = probe.puts + 1]
    /\ UNCHANGED <<call, dep, pod, svc, pip, faults, edits, hist, started>>

\* b2_service.list_files(server_id) and b2_service.get_file(server_id, file_path)
StoreRead ==
    /\ probe.op = "update_file"
    /\ LET server_id == probe.server_id
           file_path == probe.file_path
           raised == GetFileRaises(store, server_id, file_path)
       IN  probe' = [probe EXCEPT
                        !.op = "read",
                        !.listing = list_files(store, server_id),
                        !.key = FullPath(server_id, file_path),
                        !.raised = raised,
                        !.got = IF raised THEN <<>> ELSE get_file(store, server_id, file_path)]
    /\ UNCHANGED <<call, store, dep, pod, svc, pip, faults, edits, hist, started>>

NextStore == StoreUpdateFile \/ StoreRead

\* update_file, list_files and get_file called directly on one bucket
SpecStore == InitStore /\ [][NextStore]_vars

(***************************************************************************)
(* The display status that list_servers and get_server_status derive from  *)
(* the replica counts of a deployment, on every deployment object.         *)
(***************************************************************************)
NoStatusCall ==
    [op |-> "none",
     deployment |-> [ready_replicas |-> NoCount, replicas |-> NoCount,
                     available_replicas |-> NoCount],
     status |-> "", listed |-> ""]

InitStatus ==
    /\ store = [k \in {} |-> <<>>]
    /\ dep = [exists |-> FALSE, replicas |-> 0]
    /\ pod = NoPod
    /\ svc = [exists |-> FALSE, ip |-> 0]
    /\ pip = FALSE
    /\ faults = 0
    /\ edits = 0
    /\ hist = NoHist
    /\ started = NotStarted
    /\ probe = NoStatusCall
    /\ call = [p \in Procs |-> [IdleCall EXCEPT !.pre_store = [k \in {} |-> <<>>],
                                              !.pre_dep = FALSE,
                                              !.pre_svc = FALSE,
                                              !.pre_replicas = 0]]

\* the deployment that list_deployment_for_all_namespaces returns: the
\* available replicas of a deployment are among its ready replicas
StatusDeployment ==
    /\ probe.op \in {"none", "status"}
    /\ \E ready_replicas \in ReplicaCounts, replicas \in ReplicaCounts,
          available_replicas \in ReplicaCounts :
          /\ OrZero(available_replicas) <= OrZero(ready_replicas)
          /\ probe' = [NoStatusCall EXCEPT
                          !.op = "deployment",
                          !.deployment = [ready_replicas |-> ready_replicas,
                                          replicas |-> replicas,
                                          available_replicas |-> available_replicas]]
    /\ UNCHANGED <<call, store, dep, pod, svc, pip, faults, edits, hist, started>>

\* GET /status/<server_id> and GET /list-servers on that deployment
StatusDetermine ==
    /\ probe.op = "deployment"
    /\ probe' = [probe EXCEPT !.op = "status",
                              !.status = DetailedStatus(probe.deployment),
                              !.listed = ListedStatus(probe.deployment)]
    /\ UNCHANGED <<call, store, dep, pod, svc, pip, faults, edits, hist, started>>

NextStatus == StatusDeployment \/ StatusDetermine

\* the status derivation applied to every deployment of up to MaxReplicas
SpecStatus == InitStatus /\ [][NextStatus]_vars

(***************************************************************************)
(* ServerIdValidator called directly on a string.                          *)
(***************************************************************************)
MaxIdLen == 3

ValidatorChars == {"a", "1", "-", "_", "A", "LF"}

RECURSIVE Strings(_, _)
Strings(chars, n) ==
    IF n = 0 THEN {<<>>}
    ELSE LET shorter == Strings(chars, n - 1)
         IN  shorter \cup {Append(value, c) : value \in {v \in shorter : Len(v) = n - 1},
                                              c \in chars}

Repeat(c, n) == [i \in 1..n |-> c]

\* strings about as long as the longest server id allowed, with every last
\* character
LongStrings ==
    {Repeat("a", n) \o <<c>> : n \in (MaxServerIdLen - 2)..MaxServerIdLen, c \in ValidatorChars}

ValidatorValues == Strings(ValidatorChars, MaxIdLen) \cup LongStrings

NoValidatorCall == [op |-> "none", value |-> <<>>, result |-> ""]

InitValidator ==
    /\ store = [k \in {} |-> <<>>]
    /\ dep = [exists |-> FALSE, replicas |-> 0]
    /\ pod = NoPod
    /\ svc = [exists |-> FALSE, ip |-> 0]
    /\ pip = FALSE
    /\ faults = 0
    /\ edits = 0
    /\ hist = NoHist
    /\ started = NotStarted
    /\ probe = NoValidatorCall
    /\ call = [p \in Procs |-> [IdleCall EXCEPT !.pre_store = [k \in {} |-> <<>>],
                                              !.pre_dep = FALSE,
                                              !.pre_svc = FALSE,
                                              !.pre_replicas = 0]]

\* validator = ServerIdValidator(); validator(value)
ValidatorCall ==
    /\ probe.op \in {"none", "returned"}
    /\ \E value \in ValidatorValues :
          probe' = [NoValidatorCall EXCEPT !.op = "called", !.value = value]
    /\ UNCHANGED <<call, store, dep, pod, svc, pip, faults, edits, hist, started>>

ValidatorReturn ==
    /\ probe.op = "called"
    /\ probe' = [probe EXCEPT !.op = "returned", !.result = ServerIdValidator(probe.value)]
    /\ UNCHANGED <<call, store, dep, pod, svc, pip, faults, edits, hist, started>>

NextValidator == ValidatorCall \/ ValidatorReturn

\* ServerIdValidator on every string of up to MaxIdLen characters and on
\* strings of about MaxServerIdLen characters
SpecValidator == InitValidator /\ [][NextValidator]_vars

(***************************************************************************)
(* ErrorHandler.handle_kubernetes_error called directly on a message.  A   *)
(* message is the sequence of the characters of str(error).                *)
(***************************************************************************)
MaxWords == 3

\* str.lower() on one character
LowerChar(c) ==
    CASE c = "N" -> "n" [] c = "F" -> "f" [] c = "A" -> "a" [] c = "U" -> "u"
      [] OTHER -> c

\* str(error).lower()
Lower(text) == [i \in 1..Len(text) |-> LowerChar(text[i])]

\* key in text
Contains(text, key) ==
    \E i \in 1..(Len(text) - Len(key) + 1) : SubSeq(text, i, i + Len(key) - 1) = key

KeyNotFound == <<"n", "o", "t", " ", "f", "o", "u", "n", "d">>

KeyAlreadyExists == <<"a", "l", "r", "e", "a", "d", "y", " ", "e", "x", "i", "s", "t", "s">>

KeyForbidden == <<"f", "o", "r", "b", "i", "d", "d", "e", "n">>

KeyUnauthorized == <<"u", "n", "a", "u", "t", "h", "o", "r", "i", "z", "e", "d">>

\* a handle_kubernetes_error that looks for "forbidden" first
handle_kubernetes_error_forbidden_first(message) ==
    LET lowered == Lower(message)
    IN  IF Contains(lowered, KeyForbidden) THEN 403
        ELSE IF Contains(lowered, KeyNotFound) THEN 404
        ELSE IF Contains(lowered, KeyAlreadyExists) THEN 409
        ELSE IF Contains(lowered, KeyUnauthorized) THEN 401
        ELSE 500

\* ErrorHandler.handle_kubernetes_error: the status code for str(error)
handle_kubernetes_error(message) ==
    LET lowered == Lower(message)
    IN  IF Contains(lowered, KeyNotFound) THEN 404
        ELSE IF Contains(lowered, KeyAlreadyExists) THEN 409
        ELSE IF Contains(lowered, KeyForbidden) THEN 403
        ELSE IF Contains(lowered, KeyUnauthorized) THEN 401
        ELSE 500

\* the words of the messages considered
ErrorWords ==
    { <<"n", "o", "t">>, <<"N", "o", "t">>, <<"f", "o", "u", "n", "d">>, <<"F", "o", "u", "n", "d">>,
      <<"a", "l", "r", "e", "a", "d", "y">>, <<"e", "x", "i", "s", "t", "s">>, <<"A", "l", "r", "e", "a", "d", "y">>,
      <<"F", "o", "r", "b", "i", "d", "d", "e", "n">>, <<"U", "n", "a", "u", "t", "h", "o", "r", "i", "z", "e", "d">>, <<"u", "n", "f", "o", "r", "b", "i", "d", "d", "e", "n">> }

\* the messages of up to n words, with one space between two words
RECURSIVE Messages(_)
Messages(n) ==
    IF n = 0 THEN {<<>>}
    ELSE LET shorter == Messages(n - 1)
         IN  shorter \cup ErrorWords
                \cup {message \o <<" ">> \o word : message \in shorter \ {<<>>},
                                                   word \in ErrorWords}

NoErrorCall == [op |-> "none", message |-> <<>>, status_code |-> 0]

InitErrors ==
    /\ store = [k \in {} |-> <<>>]
    /\ dep = [exists |-> FALSE, replicas |-> 0]
    /\ pod = NoPod
    /\ svc = [exists |-> FALSE, ip |-> 0]
    /\ pip = FALSE
    /\ faults = 0
    /\ edits = 0
    /\ hist = NoHist
    /\ started = NotStarted
    /\ probe = NoErrorCall
    /\ call = [p \in Procs |-> [IdleCall EXCEPT !.pre_store = [k \in {} |-> <<>>],
                                              !.pre_dep = FALSE,
                                              !.pre_svc = FALSE,
                                              !.pre_replicas = 0]]

\* an error is raised with a message
ErrorRaise ==
    /\ probe.op = "none"
    /\ \E message \in Messages(MaxWords) :
          probe' = [NoErrorCall EXCEPT !.op = "raised", !.message = message]
    /\ UNCHANGED <<call, store, dep, pod, svc, pip, faults, edits, hist, started>>

\* error_response, status_code = ErrorHandler.handle_kubernetes_error(logger, error)
ErrorHandle ==
    /\ probe.op = "raised"
    /\ probe' = [probe EXCEPT !.op = "handled",
                              !.status_code = handle_kubernetes_error(probe.message)]
    /\ UNCHANGED <<call, store, dep, pod, svc, pip, faults, edits, hist, started>>

NextErrors == ErrorRaise \/ ErrorHandle

\* handle_kubernetes_error on every message of up to MaxWords words
SpecErrors == InitErrors /\ [][NextErrors]_vars

(***************************************************************************)
(* Properties.                                                             *)
(***************************************************************************)
ServerKeys(st) == {k \in DOMAIN st : k[1] = ServerId}

Events(p) == call[p].log

Before(log, first, then) ==
    \E i \in 1..Len(log) :
       /\ log[i] = first
       /\ \A j \in 1..Len(log) : log[j] = then => i < j

\* C1: in resume, when the listing holds world.tar.gz.b64 and a config file
\* is written, the extraction of the archive was completed before the first
\* config-file write.
C1_ArchiveBeforeWrites ==
    \A p \in Procs :
       (/\ call[p].op = "resume"
        /\ WorldBackupFile \in Range(call[p].listing)
        /\ "write" \in Range(Events(p)))
       => Before(Events(p), "extract", "write")

\* C2: after a pause and a resume without failure, with a Running pod,
\* every tracked file that was not empty at pause time has in the container
\* exactly the content it had at pause time.
C2_PauseResumeRoundTrip ==
    (hist.kind = "pause" /\ hist.stage = "restored")
    => \A f \in DOMAIN hist.files :
          hist.files[f] # <<>>
          => f \in DOMAIN pod.files /\ pod.files[f] = hist.files[f]

\* C3: after a pause that saved N config files and the archive, a resume
\* without failure returns files_restored = world.tar.gz.b64 followed by the
\* N config files in the order of the store listing.
C3_ResumeReportsAll ==
    \A p \in Procs :
       (/\ call[p].op = "resume" /\ call[p].pc = "done"
        /\ hist.kind = "pause" /\ hist.stage = "restored"
        /\ WorldBackupFile \in Range(hist.saved))
       => call[p].r_files =
             <<WorldBackupFile>> \o
             SelectSeq(ListOrder, LAMBDA f : f \in Range(hist.saved) /\ f # WorldBackupFile)

\* C4: after a stop and a start without failure, every file that stop saved
\* is in the started container with the content it had when stop was called.
C4_StopStartRoundTrip ==
    (hist.kind = "stop" /\ hist.stage = "restored" /\ pod.phase = "Running")
    => \A f \in Range(hist.saved) :
          f \in DOMAIN pod.files /\ pod.files[f] = hist.files[f]

\* C5: a start for a server id whose workload exists answers 409.
C5_StartConflict ==
    \A p \in Procs :
       (call[p].op = "start" /\ call[p].pc = "done" /\ call[p].pre_dep)
       => call[p].status = 409

\* C6: a resume for a server id that has no workload answers 404.
C6_ResumeNotFound ==
    \A p \in Procs :
       (call[p].op = "resume" /\ call[p].pc = "done" /\ ~call[p].pre_dep)
       => call[p].status = 404

\* C7: a start that found no artifact of the server id in the store and
\* answered 200 leaves exactly the five default artifacts in the store and
\* reports files_restored = false with no existing files.
C7_NewServerSeeded ==
    \A p \in Procs :
       (/\ call[p].op = "start" /\ call[p].pc = "done" /\ call[p].status = 200
        /\ ServerKeys(call[p].pre_store) = {})
       => /\ ServerKeys(store) =
                { <<ServerId, "server.properties">>, <<ServerId, "ops.json">>,
                  <<ServerId, "whitelist.json">>, <<ServerId, "banned-players.json">>,
                  <<ServerId, "banned-ips.json">> }
          /\ call[p].r_flag = FALSE
          /\ call[p].r_files = <<>>

C7_Witness ==
    \E p \in Procs :
       /\ call[p].op = "start" /\ call[p].pc = "done" /\ call[p].status = 200
       /\ ServerKeys(call[p].pre_store) = {}
       /\ Cardinality(ServerKeys(store)) = 5

\* C8: a start that found artifacts of the server id in the store puts
\* nothing: the store stays as it was when the call began, and a 200
\* response has files_restored = true and existing_files = the listing.
C8_ExistingServerNoPut ==
    \A p \in Procs :
       (call[p].op = "start" /\ ServerKeys(call[p].pre_store) # {})
       => /\ store = call[p].pre_store
          /\ "put" \notin Range(Events(p))
          /\ call[p].status = 200
             => /\ call[p].r_flag = TRUE
                /\ call[p].r_files = list_files(call[p].pre_store, ServerId)

C8_Witness ==
    \E p \in Procs :
       /\ call[p].op = "start" /\ call[p].pc = "done" /\ call[p].status = 200
       /\ ServerKeys(call[p].pre_store) # {}
       /\ \E k \in ServerKeys(store) :
             store[k] # Utf8Encode(DefaultFileContent(Tail(k)))

\* C9: in pause, no read from the container, no put to the store and no
\* archive creation follows the request to scale to zero.
C9_ScaleLast ==
    \A p \in Procs :
       call[p].op = "pause"
       => \A i, j \in 1..Len(Events(p)) :
             (i < j /\ Events(p)[i] = "scale")
             => Events(p)[j] \notin {"read", "put", "archive"}

C9_Witness ==
    \E p \in Procs :
       /\ call[p].op = "pause" /\ call[p].pc = "done" /\ call[p].status = 200
       /\ {"read", "put", "archive", "scale"} \subseteq Range(Events(p))
       /\ Last(Events(p)) = "scale"

\* C10: no step of a pause call, successful or failed, changes the service
\* or its address, and pause issues no create or delete on the service.
C10_PauseKeepsEndpoint ==
    [][ \A p \in Procs :
           (call[p].op = "pause" /\ call'[p] # call[p])
           => /\ svc' = svc
              /\ pip' = pip
              /\ Range(call'[p].log) \cap {"svc_create", "svc_delete", "pip"} = {} ]_vars

C10_Witness ==
    \E p \in Procs :
       /\ call[p].op = "pause" /\ call[p].pc = "done" /\ call[p].status = 200
       /\ svc.exists /\ svc.ip # 0
       /\ dep.exists /\ dep.replicas = 0

\* C11: while only pause and resume were called after a start that answered
\* 200, every resume that answers 200 returns the ip and the port that start
\* returned.
C11_ResumeSameEndpoint ==
    \A p \in Procs :
       (/\ call[p].op = "resume" /\ call[p].pc = "done" /\ call[p].status = 200
        /\ started # NotStarted)
       => /\ call[p].r_ip = started.ip
          /\ call[p].r_port = started.port

C11_Witness ==
    \E p \in Procs :
       /\ call[p].op = "resume" /\ call[p].pc = "done" /\ call[p].status = 200
       /\ started.cycles = 2
       /\ call[p].r_ip = StaticAddress /\ call[p].r_port = GamePort
StoreKey(file_path) == <<ServerId>> \o file_path

Count(log, event) == Len(SelectSeq(log, LAMBDA e : e = event))

\* C12: after a stop that answered 200 neither the deployment nor the
\* service exists, every put of a tracked file was issued before the
\* deletion of the deployment, the files the answer lists are those puts,
\* and when the server was running each tracked file that was not empty is
\* in the store with the content read from the container.
C12_StopLeavesAbsent ==
    \A p \in Procs :
       (call[p].op = "stop" /\ call[p].pc = "done" /\ call[p].status = 200)
       => /\ ~dep.exists
          /\ ~svc.exists
          /\ Count(Events(p), "dep_delete") = 1
          /\ \A i, j \in 1..Len(Events(p)) :
                (Events(p)[i] = "dep_delete" /\ Events(p)[j] = "put") => j < i
          /\ Count(Events(p), "put") = Len(call[p].r_files)
          /\ \A f \in Range(call[p].r_files) : StoreKey(f) \in DOMAIN store
          /\ (hist.kind = "stop" /\ hist.stage = "saved")
             => \A f \in DOMAIN hist.files :
                   hist.files[f] # <<>>
                   => /\ f \in Range(call[p].r_files)
                      /\ store[StoreKey(f)] = Utf8Encode(TranslateNewlines(hist.files[f]))

C12_Witness ==
    \E p \in Procs :
       /\ call[p].op = "stop" /\ call[p].pc = "done" /\ call[p].status = 200
       /\ hist.kind = "stop" /\ hist.stage = "saved"
       /\ Len(call[p].r_files) = Len(FilesToSave)
       /\ \E f \in DOMAIN hist.files : hist.files[f] # TranslateNewlines(hist.files[f])
       /\ ~dep.exists /\ ~svc.exists
\* the store's entry for the world backup: absent, or its bytes
WorldEntry(st) ==
    IF StoreKey(WorldBackupFile) \in DOMAIN st THEN <<st[StoreKey(WorldBackupFile)]>> ELSE <<>>

\* C13: no step of a stop call changes the store's world.tar.gz.b64 entry,
\* stop neither archives nor extracts the world nor lists the backup among
\* its saved files, and a step that changes the entry is a step of a pause.
C13_StopKeepsArchive ==
    [][ /\ \A p \in Procs :
              (call[p].op = "stop" /\ call'[p] # call[p])
              => /\ WorldEntry(store') = WorldEntry(store)
                 /\ Range(call'[p].log) \cap {"archive", "extract"} = {}
                 /\ WorldBackupFile \notin Range(call'[p].saved)
        /\ WorldEntry(store') # WorldEntry(store)
           => \E p \in Procs : call[p].op = "pause" /\ call'[p] # call[p] ]_vars

C13_Witness ==
    \E p \in Procs :
       /\ call[p].op = "stop" /\ call[p].pc = "done" /\ call[p].status = 200
       /\ Len(call[p].r_files) = Len(FilesToSave)
       /\ WorldEntry(store) = <<Utf8Encode(B64Encode(TarWorld("w1")))>>
       /\ WorldEntry(call[p].pre_store) = WorldEntry(store)
\* C14: when delete_deployment has deleted the deployment and the deletion
\* of the service fails, stop answers an error, the deployment stays deleted,
\* the service is left as it was and no request follows the failure; stop
\* answers 200 only at the step that deletes the service.
C14_PartialDeleteNoRollback ==
    /\ [][ \A p \in Procs :
              (At(p, "stop", "t_delete_svc") /\ call'[p] # call[p])
              => /\ call'[p].pc = "done"
                 /\ ~dep.exists /\ dep' = dep
                 /\ \/ /\ call'[p].status = 200
                       /\ svc.exists /\ ~svc'.exists
                       /\ call'[p].log = Append(call[p].log, "svc_delete")
                    \/ /\ call'[p].status = 500
                       /\ svc' = svc
                       /\ call'[p].log = call[p].log ]_vars
    /\ [](\A p \in Procs :
             (/\ call[p].op = "stop" /\ call[p].pc = "done"
              /\ "dep_delete" \in Range(Events(p))
              /\ "svc_delete" \notin Range(Events(p)))
             => /\ call[p].status = 500
                /\ ~dep.exists
                /\ call[p].failed = "svc_delete" => svc.exists = call[p].pre_svc)

C14_Witness ==
    \E p \in Procs :
       /\ call[p].op = "stop" /\ call[p].pc = "done" /\ call[p].status = 500
       /\ call[p].failed = "svc_delete"
       /\ Last(Events(p)) = "dep_delete"
       /\ ~dep.exists
       /\ svc.exists /\ svc.ip # 0
\* C15: a service is created only when none of that name exists, so there is
\* never a second endpoint record; and while a service with an assigned
\* address exists no step asks for the static ip, creates a service or the
\* public ip, or changes the address.
C15_OneEndpointNoReprovision ==
    [][ \A p \in Procs :
           /\ Count(call'[p].log, "svc_create") > Count(call[p].log, "svc_create")
              => ~svc.exists /\ svc'.exists
           /\ (svc.exists /\ svc.ip # 0)
              => /\ Count(call'[p].log, "svc_create") <= Count(call[p].log, "svc_create")
                 /\ Count(call'[p].log, "pip") <= Count(call[p].log, "pip")
                 /\ pip' = pip
                 /\ svc'.exists => svc' = svc ]_vars

C15_Witness ==
    \E p \in Procs :
       /\ call[p].op = "start" /\ call[p].pc = "done" /\ call[p].status = 500
       /\ call[p].pre_svc /\ ~call[p].pre_dep
       /\ call[p].failed = "none"
       /\ Last(Events(p)) = "pip"
       /\ svc.exists /\ dep.exists

\* C16: when create_game_service finds the service with an assigned
\* address, the call ends at that step; it answers that address with the
\* port of the game package unless the read itself failed, and it issues no
\* request for the static ip, no creation and no poll.
C16_ReuseAssignedAddress ==
    [][ \A p \in Procs :
           (/\ At(p, "start", "s_svc") /\ call'[p] # call[p]
            /\ svc.exists /\ svc.ip # 0)
           => /\ call'[p].pc = "done"
              /\ call'[p].log = call[p].log
              /\ svc' = svc /\ pip' = pip
              /\ \/ /\ call'[p].status = 200
                    /\ call'[p].r_ip = svc.ip
                    /\ call'[p].r_port = GamePort
                    /\ call'[p].failed = "none"
                 \/ /\ call'[p].status = 500
                    /\ call'[p].failed = "svc_read" ]_vars

C16_Witness ==
    \E p \in Procs :
       /\ call[p].op = "start" /\ call[p].pc = "done" /\ call[p].status = 200
       /\ call[p].pre_svc
       /\ Events(p) = <<"dep_create">>
       /\ call[p].r_ip = StaticAddress /\ call[p].r_port = GamePort
\* C17: after create_game_service created the service, each of at most 12
\* reads either sees the address, and start answers it at once with the port
\* of the game package, or sees none; after the twelfth read without an
\* address start answers an error, and before it the loop goes on.
C17_PollBounded ==
    /\ [](\A p \in Procs :
             At(p, "start", "s_poll") => call[p].attempt < IpPollAttempts)
    /\ [][ \A p \in Procs :
              (At(p, "start", "s_poll") /\ call'[p] # call[p])
              => /\ svc' = svc /\ pip' = pip
                 /\ call'[p].log = call[p].log
                 /\ IF svc.ip # 0
                    THEN /\ call'[p].pc = "done"
                         /\ call'[p].status = 200
                         /\ call'[p].r_ip = svc.ip
                         /\ call'[p].r_port = GamePort
                    ELSE IF call[p].attempt + 1 < IpPollAttempts
                         THEN /\ call'[p].pc = "s_poll"
                              /\ call'[p].attempt = call[p].attempt + 1
                         ELSE /\ call'[p].pc = "done"
                              /\ call'[p].status = 500 ]_vars

C17_Witness ==
    \E p \in Procs :
       /\ call[p].op = "start" /\ call[p].pc = "done" /\ call[p].status = 500
       /\ ~call[p].pre_svc
       /\ call[p].failed = "none"
       /\ Events(p) # <<>> /\ Last(Events(p)) = "svc_create"
       /\ svc.exists /\ svc.ip = 0
\* C18: in a resume where the get or the write of one listed artifact
\* failed, resume answers 200 and that artifact is the only listed one that
\* files_restored lacks.
C18_RestoreFailureExcludesOne ==
    \A p \in Procs :
       (call[p].op = "resume" /\ call[p].pc = "done" /\ call[p].failed = "restore")
       => /\ call[p].status = 200
          /\ Cardinality({f \in Range(call[p].listing) : f \notin Range(call[p].r_files)}) = 1
\* C19: in a pause or a stop of an existing instance where the read of one
\* tracked file from the container or its put to the store failed, the call
\* answers 200, that file is the only tracked file files_saved lacks, and the
\* deployment was scaled to zero (pause) or deleted (stop).
C19_BackupFailureExcludesOne ==
    \A p \in Procs :
       (/\ Backup(p) /\ call[p].pc = "done"
        /\ call[p].failed \in {"read", "put"}
        /\ call[p].pre_dep
        /\ call[p].op = "stop" => call[p].pre_svc)
       => /\ call[p].status = 200
          /\ Cardinality(Range(FilesToSave) \ Range(call[p].r_files)) = 1
          /\ IF call[p].op = "pause"
             THEN "scale" \in Range(Events(p)) /\ dep.replicas = 0
             ELSE "dep_delete" \in Range(Events(p)) /\ ~dep.exists
\* C20: a pause or a stop whose backup found no pod for the server id (no
\* read was issued) does not go on to scale or delete the deployment and
\* does not answer 200.
C20_NoPodFailsBackup ==
    \A p \in Procs :
       (/\ Backup(p) /\ call[p].pc # "copy"
        /\ "read" \notin Range(Events(p)))
       => /\ Range(Events(p)) \cap {"scale", "dep_delete", "svc_delete"} = {}
          /\ call[p].status # 200
\* the cluster requests an operation must have completed to answer 200
Required(op) ==
    CASE op = "start" -> {"dep_create"}
      [] op = "stop" -> {"dep_delete", "svc_delete"}
      [] op = "pause" -> {"scale"}
      [] op = "resume" -> {"scale"}
      [] OTHER -> {}

\* C21: a call in which the creation, the scaling or the deletion of the
\* deployment, the deletion of the service or the provisioning of the
\* endpoint failed answers 500; a call answers 200 only when each of these
\* requests it makes was completed, and a start only with an assigned
\* address.
C21_InfrastructureFailureFatal ==
    \A p \in Procs :
       /\ (/\ call[p].pc = "done"
           /\ call[p].op \in {"start", "stop", "pause", "resume"}
           /\ call[p].failed \in {"dep_create", "scale", "dep_delete", "svc_delete", "svc_read"})
          => call[p].status = 500
       /\ call[p].status = 200
          => /\ Required(call[p].op) \subseteq Range(Events(p))
             /\ call[p].op = "start" => call[p].r_ip # 0

C21_Witness ==
    \E p \in Procs :
       /\ call[p].op = "pause" /\ call[p].pc = "done"
       /\ call[p].failed = "scale"
       /\ call[p].status = 500
       /\ Len(call[p].saved) = Len(FilesToSave) + 1
       /\ dep.exists /\ dep.replicas = 1
\* C22: after update_file(server_id, p, c), list_files(server_id) holds p
\* exactly once, and get_file(server_id, p) reads the key server_id/p and
\* returns c, for text and for binary content and also for a p that begins
\* with the server id.
C22_StoreRoundTrip ==
    probe.op = "read"
    => /\ Count(probe.listing, probe.file_path) = 1
       /\ probe.key = <<probe.server_id>> \o probe.file_path
       /\ ~probe.raised
       /\ probe.got = probe.content
\* C23: a pause that answers 200 right after a pause of the same container,
\* with the same files and the same world, that answered 200 leaves the store
\* as it found it: the same keys and the same content for each key.
C23_BackupIdempotent ==
    \A p \in Procs :
       (/\ call[p].op = "pause" /\ call[p].pc = "done" /\ call[p].status = 200
        /\ hist.kind = "pause" /\ hist.stage = "saved again" /\ hist.again)
       => /\ store = call[p].pre_store
          /\ list_files(store, ServerId) = list_files(call[p].pre_store, ServerId)

C23_Witness ==
    \E p \in Procs :
       /\ call[p].op = "pause" /\ call[p].pc = "done" /\ call[p].status = 200
       /\ hist.kind = "pause" /\ hist.stage = "saved again" /\ hist.again
       /\ \E f \in DOMAIN hist.files : hist.files[f] # TranslateNewlines(hist.files[f])
       /\ call[p].r_files = FilesToSave \o <<WorldBackupFile>>
       /\ "archive" \in Range(Events(p))

\* C24: the status endpoint gives paused when ready and desired are both
\* zero, running when they are equal and positive, starting when ready is
\* zero and below desired, degraded when ready is positive and below desired,
\* and unknown for every other pair.
C24_StatusDerivation ==
    probe.op = "status" =>
       LET ready == OrZero(probe.deployment.ready_replicas)
           desired == OrZero(probe.deployment.replicas)
       IN  probe.status =
              IF ready = 0 /\ desired = 0 THEN "paused"
              ELSE IF ready = desired THEN "running"
              ELSE IF ready < desired /\ ready = 0 THEN "starting"
              ELSE IF ready < desired THEN "degraded"
              ELSE "unknown"

\* C25: the status endpoint, asked about a server id that has no deployment,
\* answers 404 with the error 'Server not found'; so it does after a stop of
\* that server id that answered 200.
C25_StatusNotFound ==
    \A p \in Procs :
       (call[p].op = "status" /\ call[p].pc = "done")
       => /\ ~call[p].pre_dep
             => call[p].status = 404 /\ call[p].r_error = "Server not found"
          /\ (hist.kind = "stop" /\ hist.stage = "saved") => ~call[p].pre_dep

C25_Witness ==
    \E p \in Procs :
       /\ call[p].op = "status" /\ call[p].pc = "done"
       /\ hist.kind = "stop" /\ hist.stage = "saved"
       /\ call[p].status = 404 /\ call[p].r_error = "Server not found"
       /\ ServerKeys(store) # {}

\* C27: ServerIdValidator accepts a string exactly when it has 1 to 50
\* characters, each a lowercase letter, a digit or a hyphen, and neither its
\* first nor its last character is a hyphen; it rejects every other string.
C27_ServerIdRule ==
    probe.op = "returned" =>
       LET value == probe.value
       IN  (probe.result = "ok") <=>
              /\ Len(value) \in 1..MaxServerIdLen
              /\ AllIn(value, IdChars)
              /\ Head(value) # "-" /\ Last(value) # "-"

\* C26: a start request with no body, or whose body fails the validation of
\* the package, the server id or the namespace, is answered 400 by the step
\* that validates it, and that call has made no request to the store or the
\* cluster: no list, no put, no deployment, no service.
C26_ValidationBeforeEffects ==
    /\ [][\A p \in Procs :
            (/\ At(p, "start", "s_validate")
             /\ call'[p] # call[p]
             /\ ~(call[p].body.json /\ StartServerSchemaLoads(call[p].body)))
            => /\ call'[p].pc = "done" /\ call'[p].status = 400
               /\ UNCHANGED <<store, dep, pod, svc, pip>>]_vars
    /\ [](\A p \in Procs :
            (call[p].op = "start" /\ call[p].pc = "done" /\ call[p].status = 400)
            => /\ Events(p) = <<>>
               /\ store = call[p].pre_store
               /\ dep.exists = call[p].pre_dep /\ svc.exists = call[p].pre_svc)

C26_Witness ==
    \E p \in Procs :
       /\ call[p].op = "start" /\ call[p].pc = "done" /\ call[p].status = 400
       /\ call[p].r_error = "Validation failed"
       /\ ~dep.exists /\ ~svc.exists /\ ServerKeys(store) # {}

\* a message has the keyword at some place, in any mix of cases
HasKeyword(message, key) ==
    \E i \in 0..(Len(message) - Len(key)) :
       \A j \in 1..Len(key) : LowerChar(message[i + j]) = key[j]

\* C28: handle_kubernetes_error gives 404 when the message has 'not found'
\* in any case, else 409 when it has 'already exists', else 403 when it has
\* 'forbidden', else 401 when it has 'unauthorized', else 500; with several
\* keywords the first of this order decides.
C28_KeywordPrecedence ==
    probe.op = "handled" =>
       LET message == probe.message
           keys == <<KeyNotFound, KeyAlreadyExists, KeyForbidden, KeyUnauthorized>>
           codes == <<404, 409, 403, 401>>
           present == {k \in 1..4 : HasKeyword(message, keys[k])}
       IN  /\ present = {} => probe.status_code = 500
           /\ \A k \in present :
                 (\A earlier \in present : k <= earlier) => probe.status_code = codes[k]

C28_Witness ==
    /\ probe.op = "handled"
    /\ HasKeyword(probe.message, KeyForbidden)
    /\ HasKeyword(probe.message, KeyNotFound)
    /\ ~Contains(probe.message, KeyNotFound)
    /\ probe.status_code = 404

\* C29: a pause of an instance that is not running (no deployment with one
\* replica) and a resume of an instance that is not paused (no deployment
\* with zero replicas) are answered with an error, and leave the replica
\* count and the store as they were.
C29_StateChecked ==
    \A p \in Procs :
       (/\ call[p].pc = "done"
        /\ \/ call[p].op = "pause" /\ ~(call[p].pre_dep /\ call[p].pre_replicas = 1)
           \/ call[p].op = "resume" /\ ~(call[p].pre_dep /\ call[p].pre_replicas = 0))
       => /\ call[p].status >= 400
          /\ dep.replicas = call[p].pre_replicas
          /\ store = call[p].pre_store

\* C30: nothing orders a pause and a resume of one server id: each one's
\* scale request is made and takes effect whatever the other is doing, the
\* pause then answers 200 'paused' and a resume that answers 200 says
\* 'running'; so both can answer 200 with the resume saying 'running' and the
\* deployment left at zero replicas by the pause's later scale request.
C30_UnorderedScaling ==
    /\ [][\A p \in RaceProcs :
            (/\ call'[p] # call[p] /\ dep.exists
             /\ At(p, "pause", "p_scale") \/ At(p, "resume", "r_scale"))
            => /\ dep'.replicas = IF call[p].op = "pause" THEN 0 ELSE 1
               /\ call'[p].log = Append(call[p].log, "scale")
               /\ call[p].op = "pause"
                     => call'[p].status = 200 /\ call'[p].r_state = "paused"
               /\ call[p].op = "resume" => call'[p].pc # "done"]_vars
    /\ [](\A p \in RaceProcs : Answered(p, "resume") => call[p].r_state = "running")

C30_Witness ==
    /\ Answered(1, "pause") /\ Answered(2, "resume")
    /\ "pause" \in call[2].overlaps
    /\ call[2].r_state = "running" /\ call[2].ready
    /\ "scale" \in Range(call[1].log) /\ "scale" \in Range(call[2].log)
    /\ dep.exists /\ dep.replicas = 0

\* the requests of one kind that the calls of all clients have completed
Total(event) ==
    LET n(p) == Count(call[p].log, event)
    IN  n(1) + n(2)

\* C31: of two starts of one server id handled at the same time, with no
\* deployment before, at most one answers 200; one deployment and at most
\* one service are created, and the deployment exists once both calls, at
\* least one of them with a valid request, have ended.
C31_ConcurrentStarts ==
    /\ ~(Answered(1, "start") /\ Answered(2, "start"))
    /\ Total("dep_create") <= 1 /\ Total("svc_create") <= 1
    /\ Total("dep_create") = 1 <=> dep.exists
    /\ Total("svc_create") = 1 <=> svc.exists
    /\ (/\ \A p \in RaceProcs : call[p].op = "start" /\ call[p].pc = "done"
        /\ \E p \in RaceProcs : call[p].status # 400)
       => dep.exists

C31_Witness ==
    /\ "start" \in call[2].overlaps
    /\ Answered(1, "start") /\ call[1].r_ip # 0
    /\ call[2].op = "start" /\ call[2].pc = "done" /\ call[2].status = 500
    /\ "put" \in Range(call[1].log) /\ "put" \in Range(call[2].log)
    /\ dep.exists /\ svc.exists

\* C32: after a start that answered an error, no deployment and no service
\* exist that did not exist when the call began.
C32_FailedStartLeavesNothing ==
    \A p \in Procs :
       (call[p].op = "start" /\ call[p].pc = "done" /\ call[p].status >= 400)
       => /\ dep.exists => call[p].pre_dep
          /\ svc.exists => call[p].pre_svc

\* C33: a resume answers 200 with the status 'running' only when one of its
\* polls saw the pod in phase Running; a resume whose polls all failed does
\* not say 'running' and has written no file into the container.
C33_RunningOnlyIfSeen ==
    \A p \in Procs :
       (call[p].op = "resume" /\ call[p].pc = "done")
       => /\ (call[p].status = 200 /\ call[p].r_state = "running") => call[p].ready
          /\ ~call[p].ready => "write" \notin Range(Events(p))

\* C34: a pause that finds no running container changes no artifact of the
\* store: the reading and the archiving, when the pod is not Running, the
\* saving of nothing read, and the scaling leave the store and the list of
\* saved files as they are, and a pause that read no file and
\* archived no world ends with the store as it was and an empty files_saved.
C34_PauseWithoutContainer ==
    /\ [][\A p \in Procs :
            (/\ call[p].op = "pause" /\ call'[p] # call[p]
             /\ \/ call[p].pc \in {"copy", "p_world"} /\ pod.phase # "Running"
                \/ call[p].pc = "save" /\ call[p].contents = <<>>
                \/ call[p].pc = "p_scale")
            => /\ store' = store
               /\ call'[p].saved = call[p].saved
               /\ call[p].pc = "copy" => call'[p].contents = <<>>]_vars
    /\ [](\A p \in Procs :
            (/\ call[p].op = "pause" /\ call[p].pc = "done"
             /\ "read" \notin Range(Events(p)) /\ "archive" \notin Range(Events(p)))
            => /\ store = call[p].pre_store
               /\ call[p].r_files = <<>>)

C34_Witness ==
    \E p \in Procs :
       /\ call[p].op = "pause" /\ call[p].pc = "done" /\ call[p].status = 200
       /\ call[p].pre_dep /\ call[p].pre_replicas = 0
       /\ Events(p) = <<"scale">>
       /\ call[p].r_files = <<>>
       /\ WorldEntry(store) # <<>>
       /\ store = call[p].pre_store

\* C35: create_game_service, finding the service of the server id without
\* an assigned address, does not fail with the error of a duplicate: it goes
\* on to the polling of the address, and the one service stays.
C35_ExistingEndpointWithoutAddress ==
    [][\A p \in Procs :
         (/\ At(p, "start", "s_svc") /\ call'[p] # call[p]
          /\ svc.exists /\ svc.ip = 0
          /\ faults' = faults)
         => /\ call'[p].pc = "s_poll"
            /\ svc'.exists]_vars

\* the listed paths that are neither the world backup nor a directory entry
Ordinary(listing) ==
    SelectSeq(listing, LAMBDA file_path :
                 file_path # WorldBackupFile /\ Last(file_path) # "")

\* C36: the restore loop of resume, run on a Running pod, writes no file for
\* the key world.tar.gz.b64 and none for a listed path that ends in '/'; it
\* writes every other listed path once, in the order of the listing.
C36_RestoreSkipsReserved ==
    [][\A p \in Procs :
         (At(p, "resume", "r_restore") /\ call'[p] # call[p] /\ pod.phase = "Running")
         => LET listing == list_files(store, ServerId)
            IN  /\ SelectSeq(call'[p].r_files, LAMBDA f : f # WorldBackupFile)
                      = Ordinary(listing)
                /\ Count(call'[p].log, "write") = Len(Ordinary(listing))
                /\ DOMAIN pod'.files = DOMAIN pod.files \cup Range(Ordinary(listing))
                /\ \A f \in Range(Ordinary(listing)) :
                      pod'.files[f] = get_file(store, ServerId, f)]_vars

C36_Witness ==
    \E p \in Procs :
       /\ call[p].op = "resume" /\ call[p].pc = "done" /\ call[p].status = 200
       /\ WorldBackupFile \in Range(call[p].listing)
       /\ <<"plugins", "">> \in Range(call[p].listing)
       /\ call[p].r_files = Ordinary(call[p].listing)
       /\ Len(call[p].r_files) = Len(DefaultFileOrder)
       /\ <<"plugins", "">> \notin DOMAIN pod.files /\ WorldBackupFile \notin DOMAIN pod.files

\* the files that were read with content, in the order they were read
ReadWithContent(p) ==
    LET kept == SelectSeq(call[p].contents, LAMBDA item : item[2] # <<>>)
    IN  [i \in 1..Len(kept) |-> kept[i][1]]

\* C37: the saving loop of a pause or a stop, when no put fails, issues one
\* put for every tracked file that was read with non-empty content and for
\* no other, leaves the entry of a file that was absent, unreadable or empty
\* as it was, and files_saved of a 200 answer names, of the tracked files,
\* exactly those read with content.
C37_SavedIffReadWithContent ==
    /\ [][\A p \in Procs :
            (Backup(p) /\ call[p].pc = "save" /\ call'[p] # call[p] /\ faults' = faults)
            => /\ Count(call'[p].log, "put") - Count(call[p].log, "put")
                     = Len(ReadWithContent(p))
               /\ call'[p].saved = ReadWithContent(p)
               /\ \A i \in 1..Len(call[p].contents) :
                     LET item == call[p].contents[i]
                     IN  item[2] # <<>>
                         => /\ StoreKey(item[1]) \in DOMAIN store'
                            /\ store'[StoreKey(item[1])] = Utf8Encode(item[2])
               /\ \A f \in Range(FilesToSave) \ Range(ReadWithContent(p)) :
                     /\ StoreKey(f) \in DOMAIN store' <=> StoreKey(f) \in DOMAIN store
                     /\ StoreKey(f) \in DOMAIN store => store'[StoreKey(f)] = store[StoreKey(f)]]_vars
    /\ [](\A p \in Procs :
            (Backup(p) /\ call[p].pc = "done" /\ call[p].status = 200)
            => SelectSeq(call[p].r_files, LAMBDA f : f # WorldBackupFile)
                  = SelectSeq(call[p].saved, LAMBDA f : f # WorldBackupFile))

\* a pause or a stop that answered 200 after the game had emptied or removed
\* a tracked file: four files were put, that file's entry is the seeded one
C37_Witness ==
    \E p \in Procs, f \in EditPaths :
       /\ Backup(p) /\ call[p].pc = "done" /\ call[p].status = 200
       /\ Count(call[p].log, "read") = Len(FilesToSave)
       /\ Count(call[p].log, "put") - Count(call[p].log, "archive") = Len(FilesToSave) - 1
       /\ f \notin Range(call[p].r_files)
       /\ Range(FilesToSave) \ {f} \subseteq Range(call[p].r_files)
       /\ StoreKey(f) \in DOMAIN store
       /\ store[StoreKey(f)] = call[p].pre_store[StoreKey(f)]

\* C38: every start and every resume that began comes to its answer; the
\* wait for the address and the wait for the pod are each entered once in a
\* call, from the step before them with the count at zero, each failed poll
\* adds one to the count, the count stays below 12 inside the wait, and the
\* handler leaves the wait forward.
C38_WaitsBounded ==
    /\ [](\A p \in Procs :
            (At(p, "start", "s_poll") => call[p].attempt < IpPollAttempts)
            /\ (At(p, "resume", "r_poll") => call[p].attempt < PodPollAttempts))
    /\ [][\A p \in Procs :
            call'[p] # call[p]
            => LET pc == call[p].pc
                   next == call'[p].pc
               IN  /\ (next = "s_poll" /\ pc # "s_poll")
                         => pc = "s_svc" /\ call'[p].attempt = 0
                   /\ (next = "r_poll" /\ pc # "r_poll")
                         => pc = "r_service" /\ call'[p].attempt = 0
                   /\ (next = pc /\ pc \in {"s_poll", "r_poll"})
                         => call'[p].attempt = call[p].attempt + 1
                   /\ (pc = "s_poll" /\ next # pc) => next = "done"
                   /\ (pc = "r_poll" /\ next # pc) => next = "r_restore"
                   /\ pc = "r_restore" => next = "done"
                   /\ next = "s_svc" => pc = "s_deploy"
                   /\ next = "r_service" => pc = "r_scale"]_vars
    /\ \A p \in Procs :
          (call[p].op \in {"start", "resume"} /\ call[p].pc # "done")
             ~> (call[p].pc = "done")

\* a resume answered after twelve polls that saw no Running pod, the
\* service still without the address a start waited twelve polls for
C38_Witness ==
    \E p \in Procs :
       /\ call[p].op = "resume" /\ call[p].pc = "done" /\ call[p].status = 200
       /\ ~call[p].ready /\ ~call[p].faulted
       /\ pod.phase = "none"
       /\ svc.exists /\ svc.ip = 0 /\ faults = MaxFaults

\* C39: for every deployment the status that the status endpoint reports is
\* the status that the list reports for it, which the ready and the desired
\* replicas determine.
C39_SameStatusInBothProjections ==
    probe.op = "status" => probe.status = probe.listed

=============================================================================
